---- MODULE Spec2Model ----
(***************************************************************************)
(* A model of the marlin site: the catalog (Product, Category), the        *)
(* vacancy board (Vacancy), their repositories and the views and admin     *)
(* forms that read and write them.                                         *)
(*                                                                         *)
(* Conventions.  An Optional value is a sequence of length <= 1: None is   *)
(* <<>> and Some(x) is <<x>>.  A text (str) is a sequence of one-character *)
(* strings, so that case folding and substring search are computed.  A     *)
(* Decimal is a record [c, e] standing for c / 10^e, as Python's decimal   *)
(* keeps a coefficient and an exponent.                                    *)
(***************************************************************************)
EXTENDS Integers, Sequences, FiniteSets, TLC

VARIABLES
    products,    \* catalog_product rows: pk -> row
    categories,  \* catalog_category rows: pk -> row
    vacancies,   \* vacancies_vacancy rows: pk -> row
    clock,       \* the wall clock read by auto_now_add
    users,       \* the rows of the user model's table: pk -> row
    outbox,      \* the messages handed to the mail transport, in order
    requests,    \* the sign-up requests being served: slot -> request
    response     \* the outcome of the last operation

vars == <<products, categories, vacancies, clock, users, outbox, requests,
          response>>

----------------------------------------------------------------------------
(* Bounds of the model.                                                    *)

MaxVacancies == 2
MaxProducts == 2
MaxCategories == 3
MaxSalary == 2
MaxClock == 1
MaxPriceCents == 24
MaxPk == 3
MaxOutbox == 4
MaxUsers == 2
MaxRequests == 2

----------------------------------------------------------------------------
(* Optional values and Python truthiness.                                  *)

None == <<>>
Some(x) == <<x>>
IsNone(o) == o = <<>>
Val(o) == o[1]

\* bool(x) of an Optional[int]: None and 0 are both falsy.
TruthyInt(o) == ~IsNone(o) /\ Val(o) # 0

\* bool(s) of an Optional[str]: None and "" are both falsy.
TruthyStr(o) == ~IsNone(o) /\ Val(o) # <<>>

\* dict.get(key, default)
DictGet(d, key, default) == IF key \in DOMAIN d THEN d[key] ELSE default

----------------------------------------------------------------------------
(* decimal.Decimal: exact arithmetic on coefficient and exponent.  The     *)
(* context precision (28 digits) is never reached by a 10-digit price and  *)
(* a 5-digit discount, so no operation rounds.                             *)

RECURSIVE Pow10(_)
Pow10(n) == IF n = 0 THEN 1 ELSE 10 * Pow10(n - 1)

Dec(c, e) == [c |-> c, e |-> e]
DecMax(a, b) == IF a >= b THEN a ELSE b

\* a - b: the result's exponent is the smaller (more places) of the two.
DecSub(a, b) ==
    LET e == DecMax(a.e, b.e)
    IN  Dec(a.c * Pow10(e - a.e) - b.c * Pow10(e - b.e), e)

\* a * b: coefficients multiply, places add.
DecMul(a, b) == Dec(a.c * b.c, a.e + b.e)

\* a / b for an exact quotient: the ideal exponent is a.e - b.e, and places
\* are added only as far as the quotient needs them (12.50 / 100 = 0.125).
RECURSIVE DecDivFrom(_, _, _)
DecDivFrom(a, b, e) ==
    LET num == a.c * Pow10(e + b.e - a.e)
    IN  IF num % b.c = 0 THEN Dec(num \div b.c, e) ELSE DecDivFrom(a, b, e + 1)
DecDiv(a, b) == DecDivFrom(a, b, DecMax(a.e - b.e, 0))

\* Decimal comparison is by numerical value, not by representation.
DecAlign(a, e) == a.c * Pow10(e - a.e)
DecEq(a, b) == DecAlign(a, DecMax(a.e, b.e)) = DecAlign(b, DecMax(a.e, b.e))
DecLeq(a, b) == DecAlign(a, DecMax(a.e, b.e)) <= DecAlign(b, DecMax(a.e, b.e))

\* A DecimalField(decimal_places=2) column read back from the store.
DecimalPlaces == 2
FromCents(n) == Dec(n, DecimalPlaces)

----------------------------------------------------------------------------
(* Texts and the icontains lookup.                                         *)

UpperCase == <<"A", "B", "C", "D", "E", "F", "G", "H", "I", "J", "K", "L", "M",
               "N", "O", "P", "Q", "R", "S", "T", "U", "V", "W", "X", "Y", "Z">>
LowerCase == <<"a", "b", "c", "d", "e", "f", "g", "h", "i", "j", "k", "l", "m",
               "n", "o", "p", "q", "r", "s", "t", "u", "v", "w", "x", "y", "z">>

LowerChar(ch) ==
    IF \E i \in DOMAIN UpperCase : UpperCase[i] = ch
    THEN LowerCase[CHOOSE i \in DOMAIN UpperCase : UpperCase[i] = ch]
    ELSE ch

Lower(s) == [i \in DOMAIN s |-> LowerChar(s[i])]

\* sub occurs in s as a contiguous run of characters.
Contains(s, sub) ==
    \E k \in 0..(Len(s) - Len(sub)) :
        \A i \in 1..Len(sub) : s[k + i] = sub[i]

\* field__icontains=q: containment with both sides case-folded.
IContains(s, q) == Contains(Lower(s), Lower(q))

\* str.strip() for the blank the model's texts use.
RECURSIVE LStrip(_)
LStrip(s) == IF s # <<>> /\ Head(s) = " " THEN LStrip(Tail(s)) ELSE s
RECURSIVE RStrip(_)
RStrip(s) ==
    IF s # <<>> /\ s[Len(s)] = " " THEN RStrip(SubSeq(s, 1, Len(s) - 1)) ELSE s
Strip(s) == RStrip(LStrip(s))

----------------------------------------------------------------------------
(* Sorting.  A queryset's order_by fixes the order only up to ties, so a   *)
(* result is any arrangement of the rows that respects the sort key.       *)

SeqRange(s) == {s[i] : i \in DOMAIN s}

\* All arrangements of the finite set S as a sequence without repetition.
Arrangements(S) ==
    {s \in [1..Cardinality(S) -> S] : SeqRange(s) = S}

\* The arrangements of S that put a ahead of b only for pairs <<a, b>> of
\* the relation before.
OrderedBy(S, before) ==
    {s \in Arrangements(S) :
        \A i, j \in DOMAIN s : i < j => <<s[i], s[j]>> \in before}

----------------------------------------------------------------------------
(* apps.vacancies.models.Vacancy                                           *)

EnDash == "<U+2013>"

\* gettext of a msgid with no catalog entry is the msgid itself; "%(x)s" of
\* an int is its decimal numeral.
get_formatted_salary(v) ==
    IF TruthyInt(v.salary_from) /\ TruthyInt(v.salary_to)
    THEN ToString(Val(v.salary_from)) \o " " \o EnDash \o " "
             \o ToString(Val(v.salary_to))
    ELSE IF TruthyInt(v.salary_from)
    THEN "from " \o ToString(Val(v.salary_from))
    ELSE IF TruthyInt(v.salary_to)
    THEN "to " \o ToString(Val(v.salary_to))
    ELSE ""

\* Vacancy.clean: the set of field names of the ValidationError it raises,
\* empty when it raises nothing.
VacancyClean(v) ==
    IF /\ TruthyInt(v.salary_from)
       /\ TruthyInt(v.salary_to)
       /\ Val(v.salary_from) >= Val(v.salary_to)
    THEN {"salary_to"}
    ELSE {}

----------------------------------------------------------------------------
(* Rows and tables.  A table is a function from primary keys to rows; the  *)
(* store hands a new row the key after the largest one in use.             *)

Pks(table) == DOMAIN table

MaxOf(S) == CHOOSE m \in S : \A x \in S : x <= m
NextPk(table) == IF Pks(table) = {} THEN 1 ELSE MaxOf(Pks(table)) + 1

Put(table, pk, row) ==
    [k \in Pks(table) \cup {pk} |-> IF k = pk THEN row ELSE table[k]]

\* The binary collation of the store: characters compare by code point.
CharOrder == <<" ">> \o UpperCase \o LowerCase
CharRank(ch) == CHOOSE i \in DOMAIN CharOrder : CharOrder[i] = ch

RECURSIVE TextLeq(_, _)
TextLeq(a, b) ==
    IF a = <<>> THEN TRUE
    ELSE IF b = <<>> THEN FALSE
    ELSE IF Head(a) = Head(b) THEN TextLeq(Tail(a), Tail(b))
    ELSE CharRank(Head(a)) < CharRank(Head(b))

NoResponse == [op |-> "none"]

Init ==
    /\ products = <<>>
    /\ categories = <<>>
    /\ vacancies = <<>>
    /\ clock = 0
    /\ users = <<>>
    /\ outbox = <<>>
    /\ requests = <<>>
    /\ response = NoResponse

\* Time passes between two requests.
Tick ==
    /\ clock < MaxClock
    /\ clock' = clock + 1
    /\ UNCHANGED <<products, categories, vacancies, response,
                   users, outbox, requests>>

----------------------------------------------------------------------------
(* apps.vacancies.admin.VacancyAdmin: the only writer of vacancies.  The   *)
(* admin's ModelForm runs Model.full_clean, and with it Vacancy.clean,     *)
(* before it saves; an invalid form saves nothing.                         *)

VacancyRow(title, short, desc, sf, st, active, created) ==
    [title |-> title, short_description |-> short, description |-> desc,
     salary_from |-> sf, salary_to |-> st, is_active |-> active,
     created_at |-> created]

AdminSaveVacancy(op, pk, row) ==
    LET errors == VacancyClean(row)
    IN  /\ vacancies' = IF errors = {} THEN Put(vacancies, pk, row) ELSE vacancies
        /\ response' = [op |-> op, pk |-> pk, instance |-> row,
                        errors |-> errors, saved |-> errors = {}]
        /\ UNCHANGED <<products, categories, clock,
                       users, outbox, requests>>

\* The add form: every field of VacancyAdmin.fields is submitted.
AdminAddVacancy(title, short, desc, sf, st, active) ==
    /\ Cardinality(Pks(vacancies)) < MaxVacancies
    /\ AdminSaveVacancy("vacancy_add", NextPk(vacancies),
                        VacancyRow(title, short, desc, sf, st, active, clock))

\* The change form: created_at is read-only and keeps its value.
AdminChangeVacancy(pk, title, short, desc, sf, st, active) ==
    /\ pk \in Pks(vacancies)
    /\ AdminSaveVacancy("vacancy_change", pk,
                        VacancyRow(title, short, desc, sf, st, active,
                                   vacancies[pk].created_at))

\* The change list: list_editable submits is_active alone.
AdminListEditVacancy(pk, active) ==
    /\ pk \in Pks(vacancies)
    /\ AdminSaveVacancy("vacancy_list_edit", pk,
                        [vacancies[pk] EXCEPT !.is_active = active])

\* VacancyAdmin.formatted_salary and the templates render the salary.
CallGetFormattedSalary(pk) ==
    /\ pk \in Pks(vacancies)
    /\ response' = [op |-> "get_formatted_salary", pk |-> pk,
                    instance |-> vacancies[pk],
                    text |-> get_formatted_salary(vacancies[pk])]
    /\ UNCHANGED <<products, categories, vacancies, clock,
                   users, outbox, requests>>

----------------------------------------------------------------------------
(* apps.vacancies.repositories.vacancy_repository.VacancyRepository        *)

\* Vacancy.Meta.ordering = ("-created_at", "title")
VacancyDefaultBefore ==
    {<<a, b>> \in Pks(vacancies) \X Pks(vacancies) :
        \/ vacancies[a].created_at > vacancies[b].created_at
        \/ /\ vacancies[a].created_at = vacancies[b].created_at
           /\ TextLeq(vacancies[a].title, vacancies[b].title)}

\* A filter that searches the title alone.
VacancyFilterRowsTitleOnly(search_query, only_active) ==
    {pk \in Pks(vacancies) :
        /\ only_active => vacancies[pk].is_active
        /\ TruthyStr(search_query) =>
              IContains(vacancies[pk].title, Val(search_query))}

\* The rows VacancyRepository.filter selects.
VacancyFilterRows(search_query, only_active) ==
    {pk \in Pks(vacancies) :
        /\ only_active => vacancies[pk].is_active
        /\ TruthyStr(search_query) =>
              \/ IContains(vacancies[pk].title, Val(search_query))
              \/ IContains(vacancies[pk].description, Val(search_query))
              \/ IContains(vacancies[pk].short_description, Val(search_query))}

VacancyFilter(search_query, only_active) ==
    /\ \E items \in OrderedBy(VacancyFilterRows(search_query, only_active),
                              VacancyDefaultBefore) :
          response' = [op |-> "vacancy_filter", search_query |-> search_query,
                       only_active |-> only_active, items |-> items]
    /\ UNCHANGED <<products, categories, vacancies, clock,
                   users, outbox, requests>>

----------------------------------------------------------------------------
(* The vacancy board under salary edits.                                   *)

SalaryInputs == {None} \cup {Some(n) : n \in 0..MaxSalary}

TxtCook == <<"C", "o", "o", "k">>
TxtBar == <<"b", "a", "r">>
TxtGrill == <<"G", "r", "i", "l", "l">>

NextSalary ==
    \/ \E sf \in SalaryInputs, st \in SalaryInputs :
          AdminAddVacancy(TxtCook, TxtBar, TxtGrill, sf, st, TRUE)
    \/ \E pk \in Pks(vacancies), sf \in SalaryInputs, st \in SalaryInputs :
          AdminChangeVacancy(pk, vacancies[pk].title,
                             vacancies[pk].short_description,
                             vacancies[pk].description, sf, st,
                             vacancies[pk].is_active)
    \/ \E pk \in Pks(vacancies) : CallGetFormattedSalary(pk)

SpecSalary == Init /\ [][NextSalary]_vars

BothPresent(v) == ~IsNone(v.salary_from) /\ ~IsNone(v.salary_to)

\* The rendering the specification describes, by presence of the bounds.
FormattedSalaryByPresence(v) ==
    IF BothPresent(v)
    THEN ToString(Val(v.salary_from)) \o EnDash \o ToString(Val(v.salary_to))
    ELSE IF ~IsNone(v.salary_from)
    THEN "from " \o ToString(Val(v.salary_from))
    ELSE IF ~IsNone(v.salary_to)
    THEN "up to " \o ToString(Val(v.salary_to))
    ELSE ""

\* C2: get_formatted_salary() depends only on which bounds are present:
\* both give "<from>-<to>" joined by an en dash, salary_from alone gives
\* "from <from>", salary_to alone gives "up to <to>", neither gives "".
C2_FormattedSalaryByPresence ==
    response.op = "get_formatted_salary" =>
        response.text = FormattedSalaryByPresence(response.instance)

IsVacancySave ==
    response.op \in {"vacancy_add", "vacancy_change", "vacancy_list_edit"}

\* C3: Vacancy.clean() raises a ValidationError keyed on salary_to exactly
\* when both bounds are present and salary_from >= salary_to, and raises
\* nothing in every other case.
C3_CleanRejectsExactlyInvertedRange ==
    IsVacancySave =>
        response.errors =
            IF /\ BothPresent(response.instance)
               /\ Val(response.instance.salary_from)
                      >= Val(response.instance.salary_to)
            THEN {"salary_to"}
            ELSE {}

\* C4: every persisted vacancy that has both salary bounds set satisfies
\* salary_from < salary_to, whatever creates and edits came before.
C4_StoredSalaryRangeOrdered ==
    \A pk \in Pks(vacancies) :
        BothPresent(vacancies[pk]) =>
            Val(vacancies[pk].salary_from) < Val(vacancies[pk].salary_to)

\* One of the two bounds is set to 0.
HasZeroBound(v) ==
    \/ ~IsNone(v.salary_from) /\ Val(v.salary_from) = 0
    \/ ~IsNone(v.salary_to) /\ Val(v.salary_to) = 0

\* The two-bound form as the method's msgid writes it.
RangeForm(v) ==
    ToString(Val(v.salary_from)) \o " " \o EnDash \o " "
        \o ToString(Val(v.salary_to))

\* C24: a salary bound equal to 0 counts as present: with salary_from 0
\* and salary_to set get_formatted_salary() renders the two-bound range
\* form, and clean() applies its salary_from >= salary_to check to pairs in
\* which a bound is 0, so that the pair 0, 0 fails validation.
C24_ZeroBoundCountsAsPresent ==
    /\ (/\ response.op = "get_formatted_salary"
        /\ BothPresent(response.instance)
        /\ HasZeroBound(response.instance)) =>
           response.text = RangeForm(response.instance)
    /\ (/\ IsVacancySave
        /\ BothPresent(response.instance)
        /\ HasZeroBound(response.instance)
        /\ Val(response.instance.salary_from)
               >= Val(response.instance.salary_to)) =>
           /\ response.errors = {"salary_to"}
           /\ ~response.saved

----------------------------------------------------------------------------
(* The vacancy board under searches.                                       *)

TxtCOOK == <<"C", "O", "O", "K">>
TxtAr == <<"A", "r">>
TxtZ == <<"z">>

\* <<title, short_description, description>> of the vacancies created.
VacancyTextInputs ==
    {<<TxtCook, TxtBar, TxtBar>>, <<TxtBar, TxtCOOK, TxtGrill>>,
     <<TxtGrill, TxtBar, TxtCook>>, <<TxtGrill, TxtGrill, TxtGrill>>}

SearchQueries ==
    {None, Some(<<>>), Some(TxtCOOK), Some(TxtAr), Some(TxtZ)}

NextVacancySearch ==
    \/ \E t \in VacancyTextInputs, active \in BOOLEAN :
          AdminAddVacancy(t[1], t[2], t[3], None, None, active)
    \/ \E pk \in Pks(vacancies), active \in BOOLEAN :
          AdminListEditVacancy(pk, active)
    \/ \E q \in SearchQueries, only_active \in BOOLEAN :
          VacancyFilter(q, only_active)
    \/ Tick

SpecVacancySearch == Init /\ [][NextVacancySearch]_vars

\* Two characters are the same letter, whatever their case.
SameLetter(a, b) ==
    \/ a = b
    \/ \E i \in DOMAIN UpperCase :
          {a, b} = {UpperCase[i], LowerCase[i]}

\* q occurs in s as a run of characters, case ignored.
OccursIgnoringCase(s, q) ==
    \E from \in 1..(Len(s) + 1) :
        /\ from + Len(q) - 1 <= Len(s)
        /\ \A i \in 1..Len(q) : SameLetter(s[from + i - 1], q[i])

NoRepeats(s) == Cardinality(SeqRange(s)) = Len(s)

HasQuery(q) == ~IsNone(q) /\ Val(q) # <<>>

\* C7: VacancyRepository.filter(search_query=q, only_active=True) returns
\* exactly the active vacancies in which a non-empty q occurs, case ignored,
\* in title or description or short_description; an empty or absent q
\* restricts nothing.
C7_VacancyFilterSearchesThreeFields ==
    (response.op = "vacancy_filter" /\ response.only_active) =>
        /\ NoRepeats(response.items)
        /\ SeqRange(response.items) =
              {pk \in Pks(vacancies) :
                  /\ vacancies[pk].is_active
                  /\ HasQuery(response.search_query) =>
                        \E f \in {vacancies[pk].title,
                                  vacancies[pk].description,
                                  vacancies[pk].short_description} :
                            OccursIgnoringCase(f, Val(response.search_query))}

\* A search in the other case that a returned vacancy matches in its
\* description alone, while an inactive vacancy whose title matches is left
\* out.
C7_Witness ==
    /\ response.op = "vacancy_filter"
    /\ response.only_active
    /\ response.search_query = Some(TxtCOOK)
    /\ \E a \in SeqRange(response.items) :
          /\ ~IContains(vacancies[a].title, TxtCOOK)
          /\ ~IContains(vacancies[a].short_description, TxtCOOK)
    /\ \E pk \in Pks(vacancies) :
          ~vacancies[pk].is_active /\ vacancies[pk].title = TxtCook
    /\ Len(response.items) < Cardinality(Pks(vacancies))

----------------------------------------------------------------------------
(* apps.catalog.models.Product                                             *)

\* price and discount are kept as the store keeps them, in hundredths.
ProductRow(name, slug, price, discount, category, active, created) ==
    [name |-> name, slug |-> slug, price |-> price, discount |-> discount,
     category |-> category, is_active |-> active, created_at |-> created]

CategoryRow(name, slug, parent, sort_order, active) ==
    [name |-> name, slug |-> slug, parent |-> parent,
     sort_order |-> sort_order, is_active |-> active]

\* A final price that subtracts the percentage without dividing it by 100.
FinalPriceWithoutPercent(p) ==
    DecMul(FromCents(p.price), DecSub(Dec(1, 0), FromCents(p.discount)))

\* self.price * (1 - self.discount / Decimal("100"))
get_final_price(p) ==
    DecMul(FromCents(p.price),
           DecSub(Dec(1, 0), DecDiv(FromCents(p.discount), Dec(100, 0))))

----------------------------------------------------------------------------
(* apps.catalog.admin: the writers of the catalog.                         *)

\* The add form of CategoryAdmin.  name and slug are unique=True, and the
\* form's validate_unique refuses a value another row holds.
AdminAddCategory(name, slug, parent, sort_order, active) ==
    /\ Cardinality(Pks(categories)) < MaxCategories
    /\ NextPk(categories) <= MaxPk
    /\ \A c \in Pks(categories) :
          categories[c].slug # slug /\ categories[c].name # name
    /\ ~IsNone(parent) => Val(parent) \in Pks(categories)
    /\ categories' = Put(categories, NextPk(categories),
                         CategoryRow(name, slug, parent, sort_order, active))
    /\ response' = [op |-> "category_add", pk |-> NextPk(categories)]
    /\ UNCHANGED <<products, vacancies, clock,
                   users, outbox, requests>>

\* The add form of ProductAdmin.  slug is unique=True, and the form's
\* validate_unique refuses a value another row holds.
AdminAddProduct(name, slug, price, discount, category, active) ==
    /\ Cardinality(Pks(products)) < MaxProducts
    /\ NextPk(products) <= MaxPk
    /\ category \in Pks(categories)
    /\ \A p \in Pks(products) : products[p].slug # slug
    /\ products' = Put(products, NextPk(products),
                       ProductRow(name, slug, price, discount, category,
                                  active, clock))
    /\ response' = [op |-> "product_add", pk |-> NextPk(products)]
    /\ UNCHANGED <<categories, vacancies, clock,
                   users, outbox, requests>>

\* A slug no stored product has: "p" and the number of the row to come.
FreshSlug == <<"p", ToString(NextPk(products))>>

\* The change list: list_editable submits is_active and discount (and stock).
AdminListEditProduct(pk, active, discount) ==
    /\ pk \in Pks(products)
    /\ products' = [products EXCEPT ![pk].is_active = active,
                                    ![pk].discount = discount]
    /\ response' = [op |-> "product_list_edit", pk |-> pk]
    /\ UNCHANGED <<categories, vacancies, clock,
                   users, outbox, requests>>

\* ProductAdmin.final_price shows obj.get_final_price().
CallGetFinalPrice(pk) ==
    /\ pk \in Pks(products)
    /\ response' = [op |-> "get_final_price", pk |-> pk,
                    instance |-> products[pk],
                    value |-> get_final_price(products[pk])]
    /\ UNCHANGED <<products, categories, vacancies, clock,
                   users, outbox, requests>>

----------------------------------------------------------------------------
(* The final price of one stored product, over prices and discounts.       *)

TxtBread == <<"B", "r", "e", "a", "d">>
SlugBread == <<"b", "r", "e", "a", "d">>
TxtDairy == <<"D", "a", "i", "r", "y">>
SlugDairy == <<"d", "a", "i", "r", "y">>

\* Neither column carries a validator, so a negative price is storable and
\* so is a discount above 100.
PriceInputs == 0..MaxPriceCents \cup {999, 1234, 0 - 250}
DiscountInputs == {0, 1, 500, 1250, 3333, 9999, 10000, 15000}

InitPrice ==
    /\ categories = <<CategoryRow(TxtDairy, SlugDairy, None, 0, TRUE)>>
    /\ \E price \in PriceInputs, discount \in DiscountInputs :
          products = <<ProductRow(TxtBread, SlugBread, price, discount, 1,
                                  TRUE, 0)>>
    /\ vacancies = <<>>
    /\ clock = 0
    /\ users = <<>>
    /\ outbox = <<>>
    /\ requests = <<>>
    /\ response = NoResponse

NextPrice ==
    \/ \E pk \in Pks(products) : CallGetFinalPrice(pk)
    \/ \E pk \in Pks(products), discount \in DiscountInputs :
          AdminListEditProduct(pk, products[pk].is_active, discount)

SpecPrice == InitPrice /\ [][NextPrice]_vars

\* C1: get_final_price() equals price when discount is 0 and equals 0 when
\* discount is 100, for every price.
C1_FinalPriceAtDiscountEnds ==
    response.op = "get_final_price" =>
        /\ response.instance.discount = 0 =>
              DecEq(response.value, FromCents(response.instance.price))
        /\ response.instance.discount = 100 * 100 =>
              DecEq(response.value, Dec(0, 0))

\* The final price of a product that costs something, at a discount of 100.
C1_Witness ==
    /\ response.op = "get_final_price"
    /\ response.instance.discount = 100 * 100
    /\ response.instance.price > 0

\* The decimal has a value that two decimal places can hold.
AtMostTwoPlaces(d) ==
    \/ d.e <= DecimalPlaces
    \/ d.c % Pow10(d.e - DecimalPlaces) = 0

\* C23: get_final_price() returns price * (1 - discount / 100) in decimal
\* arithmetic with 2 decimal places: for every price and discount stored
\* with 2 decimal places the value returned has no more than 2 decimal
\* places.
C23_FinalPriceHasTwoPlaces ==
    response.op = "get_final_price" =>
        /\ DecEq(response.value,
                 DecMul(FromCents(response.instance.price),
                        DecSub(Dec(1, 0),
                               DecDiv(FromCents(response.instance.discount),
                                      Dec(100, 0)))))
        /\ AtMostTwoPlaces(response.value)

\* C29: for every product that can be stored the discount lies within
\* 0..100 and the price is not negative, so that the final price is
\* between 0 and the price, both included.
C29_FinalPriceBetweenZeroAndPrice ==
    \A pk \in Pks(products) :
        /\ products[pk].discount \in 0..(100 * 100)
        /\ products[pk].price >= 0
        /\ DecLeq(Dec(0, 0), get_final_price(products[pk]))
        /\ DecLeq(get_final_price(products[pk]), FromCents(products[pk].price))

----------------------------------------------------------------------------
(* apps.catalog.repositories.product_repository.ProductRepository          *)

TxtFinalPrice == <<"f", "i", "n", "a", "l", "_", "p", "r", "i", "c", "e">>
TxtDiscount == <<"d", "i", "s", "c", "o", "u", "n", "t">>
TxtPrice == <<"p", "r", "i", "c", "e">>
TxtName == <<"n", "a", "m", "e">>
TxtCreatedAt == <<"c", "r", "e", "a", "t", "e", "d", "_", "a", "t">>
Desc(field) == <<"-">> \o field

\* The keyword parameters ProductRepository.filter declares.
ProductFilterParameters == {"search_query", "only_active", "order_field"}

\* The annotation without the discount.
AnnotatedPriceOnly(p) == p.price * (100 * 100)

\* An annotation rounded to the two places of its output field before the
\* rows are ordered by it.
AnnotatedFinalPriceRounded(p) ==
    ((p.price * (100 * 100 - p.discount) + 5000) \div (100 * 100))
        * (100 * 100)

\* F("price") * (1 - F("discount") / 100.0), in millionths.  The store
\* computes it in floating point; for two-place operands of at most ten
\* digits the rounding error stays below half a millionth, so rows compare
\* as their exact values do.
AnnotatedFinalPrice(p) == p.price * (100 * 100 - p.discount)

\* The columns order_by can name: the model's fields and, once annotated,
\* final_price.
OrderableColumns(annotated) ==
    {TxtPrice, TxtDiscount, TxtName, TxtCreatedAt}
        \cup (IF annotated THEN {TxtFinalPrice} ELSE {})

\* An order_by that takes the field name as written and never descends.
OrderTermAscendingOnly(order_field) ==
    [column |-> IF Head(order_field) = "-" THEN Tail(order_field)
                ELSE order_field,
     descending |-> FALSE]

\* order_by("-x") sorts by x descending, order_by("x") ascending.
OrderTerm(order_field) ==
    IF Head(order_field) = "-"
    THEN [column |-> Tail(order_field), descending |-> TRUE]
    ELSE [column |-> order_field, descending |-> FALSE]

\* a's value in the column is at most b's.
ColumnLeq(column, a, b) ==
    IF column = TxtName THEN TextLeq(products[a].name, products[b].name)
    ELSE IF column = TxtPrice THEN products[a].price <= products[b].price
    ELSE IF column = TxtDiscount
    THEN products[a].discount <= products[b].discount
    ELSE IF column = TxtCreatedAt
    THEN products[a].created_at <= products[b].created_at
    ELSE AnnotatedFinalPrice(products[a]) <= AnnotatedFinalPrice(products[b])

\* Product.Meta.ordering = ("-created_at", "name")
ProductDefaultBefore ==
    {<<a, b>> \in Pks(products) \X Pks(products) :
        \/ products[a].created_at > products[b].created_at
        \/ /\ products[a].created_at = products[b].created_at
           /\ TextLeq(products[a].name, products[b].name)}

\* A filter that forgets the is_active restriction.
ProductFilterRowsAnyActivity(search_query, only_active) ==
    {pk \in Pks(products) :
        TruthyStr(search_query) =>
            IContains(products[pk].name, Val(search_query))}

\* The rows the two filter() calls of ProductRepository.filter select.
ProductFilterRows(search_query, only_active) ==
    {pk \in Pks(products) :
        /\ only_active => products[pk].is_active
        /\ TruthyStr(search_query) =>
              IContains(products[pk].name, Val(search_query))}

\* The outcomes of ProductRepository.filter(**kwargs): a TypeError for a
\* keyword it does not declare, a FieldError for an order_field that names
\* no column, and otherwise the selected rows in an order that order_by (or,
\* without it, Meta.ordering) allows.
ProductFilterOutcomes(kwargs) ==
    LET search_query == DictGet(kwargs, "search_query", None)
        only_active == DictGet(kwargs, "only_active", TRUE)
        order_field == DictGet(kwargs, "order_field", None)
        rows == ProductFilterRows(search_query, only_active)
        annotated == /\ ~IsNone(order_field)
                     /\ Val(order_field) \in {TxtFinalPrice, Desc(TxtFinalPrice)}
        term == OrderTerm(Val(order_field))
        sorted == {<<a, b>> \in rows \X rows :
                      IF term.descending THEN ColumnLeq(term.column, b, a)
                      ELSE ColumnLeq(term.column, a, b)}
    IN  IF ~(DOMAIN kwargs \subseteq ProductFilterParameters)
        THEN {[error |-> "TypeError", items |-> <<>>]}
        ELSE IF ~TruthyStr(order_field)
        THEN {[error |-> "", items |-> s] :
                 s \in OrderedBy(rows, ProductDefaultBefore)}
        ELSE IF term.column \notin OrderableColumns(annotated)
        THEN {[error |-> "FieldError", items |-> <<>>]}
        ELSE {[error |-> "", items |-> s] : s \in OrderedBy(rows, sorted)}

\* A filter that switches off the rows it hands out.
ProductFilterRetiring(kwargs) ==
    /\ \E out \in ProductFilterOutcomes(kwargs) :
          /\ response' = [op |-> "product_filter", kwargs |-> kwargs,
                          error |-> out.error, items |-> out.items]
          /\ products' = [pk \in Pks(products) |->
                             IF pk \in SeqRange(out.items)
                             THEN [products[pk] EXCEPT !.is_active = FALSE]
                             ELSE products[pk]]
    /\ UNCHANGED <<categories, vacancies, clock, users, outbox, requests>>

\* A call of ProductRepository.filter.
ProductFilter(kwargs) ==
    /\ \E out \in ProductFilterOutcomes(kwargs) :
          response' = [op |-> "product_filter", kwargs |-> kwargs,
                       error |-> out.error, items |-> out.items]
    /\ UNCHANGED <<products, categories, vacancies, clock,
                   users, outbox, requests>>

----------------------------------------------------------------------------
(* The catalog under product edits and repository queries.                 *)

TxtWholeMilk == <<"W", "h", "o", "l", "e", " ", "M", "i", "l", "k">>
TxtMilkChocolate ==
    <<"M", "i", "l", "k", " ", "C", "h", "o", "c", "o", "l", "a", "t", "e">>
TxtMilk == <<"m", "i", "l", "k">>
TxtCH == <<"C", "H">>
TxtBogus == <<"b", "o", "g", "u", "s">>

\* <<name, price, discount>> of the products created, in hundredths.
ProductInputs ==
    {<<TxtWholeMilk, 1000, 0>>, <<TxtMilkChocolate, 2000, 5000>>,
     <<TxtBread, 1500, 1250>>, <<TxtWholeMilk, 2400, 7500>>}

ProductQueries == {None, Some(<<>>), Some(TxtMilk), Some(TxtCH)}

\* filter() as ProductDetailView calls it, and filter with its arguments.
CatalogCalls ==
    {<<>>} \cup
    {[search_query |-> q, only_active |-> a, order_field |-> f] :
        q \in ProductQueries, a \in BOOLEAN,
        f \in {None, Some(Desc(TxtFinalPrice)), Some(TxtBogus)}}

InitCatalog ==
    /\ categories = <<CategoryRow(TxtDairy, SlugDairy, None, 0, TRUE)>>
    /\ products = <<>>
    /\ vacancies = <<>>
    /\ clock = 0
    /\ users = <<>>
    /\ outbox = <<>>
    /\ requests = <<>>
    /\ response = NoResponse

NextCatalog ==
    \/ \E p \in ProductInputs, active \in BOOLEAN :
          AdminAddProduct(p[1], FreshSlug, p[2], p[3], 1, active)
    \/ \E pk \in Pks(products), active \in BOOLEAN :
          AdminListEditProduct(pk, active, products[pk].discount)
    \/ \E kwargs \in CatalogCalls : ProductFilter(kwargs)

SpecCatalog == InitCatalog /\ [][NextCatalog]_vars

IsProductFilter == response.op = "product_filter"
KwSearch == DictGet(response.kwargs, "search_query", None)
KwOnlyActive == DictGet(response.kwargs, "only_active", TRUE)
KwOrder == DictGet(response.kwargs, "order_field", None)

\* The active products whose name holds q, case ignored.
ActiveMatches(q) ==
    {pk \in Pks(products) :
        /\ products[pk].is_active
        /\ HasQuery(q) => OccursIgnoringCase(products[pk].name, Val(q))}

\* C5: ProductRepository.filter(search_query=q, only_active=True) returns
\* exactly the active products whose name contains q, case ignored: never
\* an inactive product, whatever q and order_field are, and every active
\* product that matches.
C5_ProductFilterActiveNameMatches ==
    (IsProductFilter /\ KwOnlyActive) =>
        /\ \A i \in DOMAIN response.items : products[response.items[i]].is_active
        /\ response.error = "" =>
              /\ NoRepeats(response.items)
              /\ SeqRange(response.items) = ActiveMatches(KwSearch)

\* An active "Whole Milk" and an inactive "Milk Chocolate", searched for
\* "milk": the answer is the "Whole Milk" row alone.
C5_Witness ==
    /\ IsProductFilter /\ KwOnlyActive
    /\ KwSearch = Some(TxtMilk)
    /\ Len(response.items) = 1
    /\ products[response.items[1]].name = TxtWholeMilk
    /\ \E pk \in Pks(products) :
          products[pk].name = TxtMilkChocolate /\ ~products[pk].is_active

----------------------------------------------------------------------------
(* The catalog under ordered queries.                                      *)

OrderInputs ==
    {None, Some(<<>>), Some(TxtFinalPrice), Some(Desc(TxtFinalPrice)),
     Some(Desc(TxtDiscount)), Some(TxtName), Some(TxtBogus)}

OrderingCalls ==
    {[search_query |-> q, order_field |-> f] :
        q \in {None, Some(TxtMilk)}, f \in OrderInputs}

NextOrdering ==
    \/ \E p \in ProductInputs :
          AdminAddProduct(p[1], FreshSlug, p[2], p[3], 1, TRUE)
    \/ \E kwargs \in OrderingCalls : ProductFilter(kwargs)
    \/ Tick

SpecOrdering == InitCatalog /\ [][NextOrdering]_vars

\* price * (1 - discount / 100) of a stored product, as an exact decimal.
ExactFinalPrice(pk) ==
    DecMul(FromCents(products[pk].price),
           DecSub(Dec(1, 0), DecDiv(FromCents(products[pk].discount),
                                    Dec(100, 0))))

\* The rows filter selects when it is given no order_field.
SelectedUnordered ==
    {pk \in Pks(products) :
        /\ KwOnlyActive => products[pk].is_active
        /\ HasQuery(KwSearch) =>
              OccursIgnoringCase(products[pk].name, Val(KwSearch))}

\* C8: with order_field "final_price" the products come in non-decreasing
\* order of price * (1 - discount / 100), with "-final_price" in
\* non-increasing order of it, and the annotation leaves the set of returned
\* products as it is without it.
C8_FinalPriceOrdering ==
    (IsProductFilter /\ response.error = ""
        /\ KwOrder \in {Some(TxtFinalPrice), Some(Desc(TxtFinalPrice))}) =>
        /\ SeqRange(response.items) = SelectedUnordered
        /\ NoRepeats(response.items)
        /\ \A i, j \in DOMAIN response.items :
              i < j =>
                  IF KwOrder = Some(TxtFinalPrice)
                  THEN DecLeq(ExactFinalPrice(response.items[i]),
                              ExactFinalPrice(response.items[j]))
                  ELSE DecLeq(ExactFinalPrice(response.items[j]),
                              ExactFinalPrice(response.items[i]))

\* Ordered by "final_price", the dearer product comes first because its
\* discount makes its final price the lower one.
C8_Witness ==
    /\ IsProductFilter /\ response.error = ""
    /\ KwOrder = Some(TxtFinalPrice)
    /\ Len(response.items) >= 2
    /\ products[response.items[1]].price > products[response.items[2]].price
    /\ ~DecLeq(ExactFinalPrice(response.items[2]),
               ExactFinalPrice(response.items[1]))

\* The value of a sort field in row a is at most its value in row b.
FieldValueLeq(field, a, b) ==
    CASE field = TxtName -> TextLeq(products[a].name, products[b].name)
      [] field = TxtPrice -> products[a].price <= products[b].price
      [] field = TxtDiscount -> products[a].discount <= products[b].discount
      [] field = TxtCreatedAt ->
            products[a].created_at <= products[b].created_at
      [] field = TxtFinalPrice ->
            DecLeq(ExactFinalPrice(a), ExactFinalPrice(b))

\* C10: with order_field set the rows come ascending by that field, or
\* descending when it is prefixed with "-"; with order_field unset they
\* keep the default ordering of products, newest created_at first and then
\* by name.
C10_OrderFieldOrDefaultOrdering ==
    (IsProductFilter /\ response.error = "") =>
        \A i, j \in DOMAIN response.items :
            i < j =>
                LET a == response.items[i]
                    b == response.items[j]
                IN  IF HasQuery(KwOrder)
                    THEN IF Head(Val(KwOrder)) = "-"
                         THEN FieldValueLeq(Tail(Val(KwOrder)), b, a)
                         ELSE FieldValueLeq(Val(KwOrder), a, b)
                    ELSE \/ products[a].created_at > products[b].created_at
                         \/ /\ products[a].created_at = products[b].created_at
                            /\ TextLeq(products[a].name, products[b].name)

\* Ordered by "-discount", the row with the larger discount comes first
\* although it is the older one, which the default ordering would put last.
C10_Witness ==
    /\ IsProductFilter /\ response.error = ""
    /\ KwOrder = Some(Desc(TxtDiscount))
    /\ Len(response.items) >= 2
    /\ products[response.items[1]].discount > products[response.items[2]].discount
    /\ products[response.items[1]].created_at
           < products[response.items[2]].created_at

\* With no order_field, two rows created at the same time come by name
\* after a newer row.
C10_DefaultOrderReached ==
    /\ IsProductFilter /\ response.error = "" /\ ~HasQuery(KwOrder)
    /\ Len(response.items) >= 2
    /\ products[response.items[1]].created_at
           = products[response.items[2]].created_at
    /\ products[response.items[1]].name # products[response.items[2]].name

----------------------------------------------------------------------------
(* apps.catalog.constants and apps.catalog.views.ProductListView           *)

TxtPriceAsc == <<"p", "r", "i", "c", "e", "_", "a", "s", "c">>
TxtPriceDesc == <<"p", "r", "i", "c", "e", "_", "d", "e", "s", "c">>

OrderingOption(field, label) == [field |-> field, label |-> label]

ORDERING_OPTIONS ==
    (<<>> :> OrderingOption(None, "Default"))
    @@ (TxtPriceAsc :> OrderingOption(Some(TxtFinalPrice), "Cheapest first"))
    @@ (TxtPriceDesc :>
            OrderingOption(Some(Desc(TxtFinalPrice)), "Most expensive first"))
    @@ (TxtDiscount :>
            OrderingOption(Some(Desc(TxtDiscount)), "By discount amount"))

\* request.GET.get(name, "").strip()
GetParam(param) == Strip(IF IsNone(param) THEN <<>> ELSE Val(param))

\* ProductListView.ordering_option
ordering_option(sort) ==
    DictGet(ORDERING_OPTIONS, GetParam(sort), ORDERING_OPTIONS[<<>>])

\* ProductListView.category_slug: self.kwargs.get("slug", "")
category_slug(url_kwargs) == DictGet(url_kwargs, "slug", <<>>)

\* The keyword arguments the catalog's list route captures: none.
ProductListRouteKwargs == <<>>

\* A lookup by slug alone.
get_by_slug_any_activity(slug) ==
    LET found == {c \in Pks(categories) : categories[c].slug = slug}
    IN  IF found = {} THEN None ELSE Some(CHOOSE c \in found : TRUE)

\* CategoryRepository.get_by_slug: the active category with the slug, or
\* None for Http404.
get_by_slug(slug) ==
    LET found == {c \in Pks(categories) :
                    categories[c].slug = slug /\ categories[c].is_active}
    IN  IF found = {} THEN None ELSE Some(CHOOSE c \in found : TRUE)

PaginateBy == 12
PaginateOrphans == 4

\* The first page of a ListView with paginate_by and paginate_orphans.
FirstPage(items) ==
    IF Len(items) <= PaginateBy + PaginateOrphans THEN items
    ELSE SubSeq(items, 1, PaginateBy)

\* GET of the product list: get_queryset hands the search, the ordering
\* field and the category slug to ProductRepository.filter; the page is cut
\* from its rows and get_context_data looks the category up.  An exception
\* that is not Http404 is answered with status 500.
ProductListGet(q, sort) ==
    LET search_query == GetParam(q)
        option == ordering_option(sort)
        slug == category_slug(ProductListRouteKwargs)
        kwargs == [search_query |-> Some(search_query),
                   order_field |-> option.field,
                   category_slug |-> slug]
    IN  /\ \E out \in ProductFilterOutcomes(kwargs) :
              response' =
                  [op |-> "product_list", q |-> q, sort |-> sort,
                   option |-> option, kwargs |-> kwargs,
                   error |-> out.error,
                   status |-> IF out.error # "" THEN 500
                              ELSE IF IsNone(get_by_slug(slug)) THEN 404
                              ELSE 200,
                   items |-> IF out.error # "" \/ IsNone(get_by_slug(slug))
                             THEN <<>> ELSE FirstPage(out.items)]
        /\ UNCHANGED <<products, categories, vacancies, clock,
                       users, outbox, requests>>

----------------------------------------------------------------------------
(* The catalog under category edits and list requests.                     *)

TxtBakery == <<"B", "a", "k", "e", "r", "y">>
SlugBakery == <<"b", "a", "k", "e", "r", "y">>
SlugInputs == {SlugDairy, SlugBakery}

\* <<name, slug>> of the categories created; CategoryAdmin prepopulates the
\* slug from the name.
CategoryInputs == {<<TxtDairy, SlugDairy>>, <<TxtBakery, SlugBakery>>}

TxtMilkPadded == <<" ", "m", "i", "l", "k", " ">>
TxtPriceAscPadded == <<" ", "p", "r", "i", "c", "e", "_", "a", "s", "c">>

SortInputs ==
    {None, Some(<<>>), Some(TxtPriceAsc), Some(TxtPriceAscPadded),
     Some(TxtPriceDesc), Some(TxtDiscount), Some(TxtBogus),
     Some(TxtFinalPrice)}

\* filter called with a category scope, as ProductListView calls it.
ScopedCalls ==
    {[search_query |-> Some(<<>>), order_field |-> None, category_slug |-> c] :
        c \in SlugInputs}

NextListView ==
    \/ \E c \in CategoryInputs, active \in BOOLEAN,
          parent \in {None} \cup {Some(k) : k \in Pks(categories)} :
          AdminAddCategory(c[1], c[2], parent, 0, active)
    \/ \E p \in ProductInputs, c \in Pks(categories) :
          AdminAddProduct(p[1], FreshSlug, p[2], p[3], c, TRUE)
    \/ \E kwargs \in ScopedCalls : ProductFilter(kwargs)
    \/ \E q \in {None, Some(TxtMilkPadded)}, sort \in SortInputs :
          ProductListGet(q, sort)

SpecListView == Init /\ [][NextListView]_vars

\* The category and its ancestors, up the parent links.
RECURSIVE AncestorsOrSelf(_)
AncestorsOrSelf(c) ==
    IF IsNone(categories[c].parent) THEN {c}
    ELSE {c} \cup AncestorsOrSelf(Val(categories[c].parent))

\* The product's category is the one with the slug or lies below it.
InScope(pk, slug) ==
    \E c \in AncestorsOrSelf(products[pk].category) :
        categories[c].slug = slug

\* C6: when a category scope is given to the product filter, the result is
\* the filter's rows restricted to the products whose category is that
\* category or one of its descendants.
C6_CategoryScopeRestricts ==
    (/\ response.op \in {"product_filter", "product_list"}
     /\ "category_slug" \in DOMAIN response.kwargs) =>
        /\ response.error = ""
        /\ \A i \in DOMAIN response.items :
              InScope(response.items[i], response.kwargs.category_slug)

\* The ordering Product.Meta gives a listing that names no other.
InDefaultOrder(items) ==
    \A i, j \in DOMAIN items :
        i < j =>
            \/ products[items[i]].created_at > products[items[j]].created_at
            \/ /\ products[items[i]].created_at = products[items[j]].created_at
               /\ TextLeq(products[items[i]].name, products[items[j]].name)

\* C9: a sort parameter that is no key of ORDERING_OPTIONS never rejects
\* the request: ordering_option gives the "Default" option, whose field is
\* None, and the listing is answered in the default ordering.
C9_UnknownSortFallsBackToDefault ==
    (/\ response.op = "product_list"
     /\ GetParam(response.sort) \notin DOMAIN ORDERING_OPTIONS) =>
        /\ response.option = OrderingOption(None, "Default")
        /\ response.kwargs.order_field = None
        /\ response.status = 200
        /\ InDefaultOrder(response.items)

\* C25: every GET of the product list, whatever q and sort are, passes
\* ProductRepository.filter only arguments that filter accepts and
\* completes with a page of active products; a request with no slug in the
\* path is not answered with NotFound.
C25_ProductListCompletes ==
    response.op = "product_list" =>
        /\ DOMAIN response.kwargs \subseteq ProductFilterParameters
        /\ response.error = ""
        /\ response.status = 200
        /\ \A i \in DOMAIN response.items :
              products[response.items[i]].is_active

----------------------------------------------------------------------------
(* apps.catalog.repositories.category_repository.CategoryRepository and    *)
(* the category admin.                                                     *)

\* Category.Meta.ordering = ("sort_order", "name")
CategoryDefaultBefore ==
    {<<a, b>> \in Pks(categories) \X Pks(categories) :
        \/ categories[a].sort_order < categories[b].sort_order
        \/ /\ categories[a].sort_order = categories[b].sort_order
           /\ TextLeq(categories[a].name, categories[b].name)}

\* The rows of S in the default ordering.  name is unique, so the ordering
\* leaves no tie and the arrangement is the only one.
CategoriesInOrder(S) == CHOOSE s \in OrderedBy(S, CategoryDefaultBefore) : TRUE

\* The prefetch without its is_active restriction.
SubcategoriesAnyActivity(c) ==
    CategoriesInOrder({k \in Pks(categories) : categories[k].parent = Some(c)})

\* Prefetch("subcategories", queryset=Category.objects.filter(is_active=True))
\* for the parent c.
Subcategories(c) ==
    CategoriesInOrder({k \in Pks(categories) :
                          /\ categories[k].parent = Some(c)
                          /\ categories[k].is_active})

\* Category.objects.filter(parent__isnull=True, is_active=True) with its
\* prefetch: the rows in order, each with its prefetched subcategories.
get_parents ==
    LET parents == CategoriesInOrder({k \in Pks(categories) :
                                         /\ IsNone(categories[k].parent)
                                         /\ categories[k].is_active})
    IN  [i \in DOMAIN parents |->
            [pk |-> parents[i], subcategories |-> Subcategories(parents[i])]]

CallGetParents ==
    /\ response' = [op |-> "get_parents", items |-> get_parents]
    /\ UNCHANGED <<products, categories, vacancies, clock,
                   users, outbox, requests>>

\* get_object_or_404 raises Http404 for DoesNotExist.
CallGetBySlug(slug) ==
    /\ response' = [op |-> "get_by_slug", slug |-> slug,
                    found |-> get_by_slug(slug),
                    error |-> IF IsNone(get_by_slug(slug)) THEN "Http404"
                              ELSE ""]
    /\ UNCHANGED <<products, categories, vacancies, clock,
                   users, outbox, requests>>

\* The change list of CategoryAdmin: list_editable submits is_active and
\* sort_order.
AdminListEditCategory(pk, active, sort_order) ==
    /\ pk \in Pks(categories)
    /\ categories' = [categories EXCEPT ![pk].is_active = active,
                                        ![pk].sort_order = sort_order]
    /\ response' = [op |-> "category_list_edit", pk |-> pk]
    /\ UNCHANGED <<products, vacancies, clock, users, outbox, requests>>

\* The change form of CategoryAdmin, moving the category under another
\* parent.  The form offers every category, the edited one included.
AdminChangeCategory(pk, parent) ==
    /\ pk \in Pks(categories)
    /\ ~IsNone(parent) => Val(parent) \in Pks(categories)
    /\ categories' = [categories EXCEPT ![pk].parent = parent]
    /\ response' = [op |-> "category_change", pk |-> pk]
    /\ UNCHANGED <<products, vacancies, clock, users, outbox, requests>>

----------------------------------------------------------------------------
(* The category tree under admin edits and repository lookups.             *)

TxtCheese == <<"C", "h", "e", "e", "s", "e">>
SlugCheese == <<"c", "h", "e", "e", "s", "e">>
SlugBogus == <<"b", "o", "g", "u", "s">>

\* <<name, slug>> of the categories created.
CategoryTreeInputs ==
    {<<TxtDairy, SlugDairy>>, <<TxtBakery, SlugBakery>>,
     <<TxtCheese, SlugCheese>>}

SortOrderInputs == {0, 1}

ParentInputs == {None} \cup {Some(k) : k \in Pks(categories)}

NextCategoryTree ==
    \/ \E c \in CategoryTreeInputs, parent \in ParentInputs,
          sort_order \in SortOrderInputs, active \in BOOLEAN :
          AdminAddCategory(c[1], c[2], parent, sort_order, active)
    \/ \E pk \in Pks(categories), active \in BOOLEAN,
          sort_order \in SortOrderInputs :
          AdminListEditCategory(pk, active, sort_order)
    \/ \E pk \in Pks(categories), parent \in ParentInputs :
          AdminChangeCategory(pk, parent)
    \/ CallGetParents
    \/ \E c \in CategoryTreeInputs : CallGetBySlug(c[2])
    \/ CallGetBySlug(SlugBogus)

SpecCategoryTree == Init /\ [][NextCategoryTree]_vars

TopLevel(k) == IsNone(categories[k].parent)

ChildrenOf(k) == {c \in Pks(categories) : categories[c].parent = Some(k)}

\* Every category a get_parents() result shows, as a parent or under one.
Listed(items) ==
    {items[i].pk : i \in DOMAIN items}
        \cup UNION {SeqRange(items[i].subcategories) : i \in DOMAIN items}

\* The category lies below the second tier: its parent has a parent.
BelowSecondTier(k) ==
    /\ ~TopLevel(k)
    /\ ~TopLevel(Val(categories[k].parent))

\* C12: get_parents() returns exactly the active categories without a
\* parent, in sort_order-then-name order, each with exactly its active
\* immediate subcategories; an inactive top-level category and all of its
\* subcategories are absent from the result, and so is every category
\* below the second tier.
C12_GetParentsTwoActiveTiers ==
    response.op = "get_parents" =>
        LET items == response.items
        IN  /\ {items[i].pk : i \in DOMAIN items}
                   = {k \in Pks(categories) :
                         TopLevel(k) /\ categories[k].is_active}
            /\ \A i, j \in DOMAIN items :
                  i < j =>
                      LET a == categories[items[i].pk]
                          b == categories[items[j].pk]
                      IN  /\ items[i].pk # items[j].pk
                          /\ \/ a.sort_order < b.sort_order
                             \/ /\ a.sort_order = b.sort_order
                                /\ TextLeq(a.name, b.name)
            /\ \A i \in DOMAIN items :
                  /\ NoRepeats(items[i].subcategories)
                  /\ SeqRange(items[i].subcategories)
                         = {c \in ChildrenOf(items[i].pk) :
                               categories[c].is_active}
            /\ \A k \in Pks(categories) :
                  (TopLevel(k) /\ ~categories[k].is_active) =>
                      ({k} \cup ChildrenOf(k)) \cap Listed(items) = {}
            /\ \A k \in Listed(items) : ~BelowSecondTier(k)

\* One active parent is returned while an inactive top-level category with
\* an active subcategory of its own is in the store.
C12_Witness ==
    /\ response.op = "get_parents"
    /\ Len(response.items) = 1
    /\ \E k \in Pks(categories) :
          /\ TopLevel(k) /\ ~categories[k].is_active
          /\ \E c \in ChildrenOf(k) : categories[c].is_active

\* A parent is returned with its active subcategory while that
\* subcategory's own active child, on the third tier, is left out.
C12_ThirdTierReached ==
    /\ response.op = "get_parents"
    /\ \E i \in DOMAIN response.items :
          \E c \in SeqRange(response.items[i].subcategories) :
              \E g \in ChildrenOf(c) : categories[g].is_active /\ g # c

\* C13: get_by_slug(slug) returns the one category with that slug when it
\* is active, and fails with Http404 when no category has the slug or the
\* one that has it is inactive; it never returns an inactive category.
C13_GetBySlugActiveOr404 ==
    response.op = "get_by_slug" =>
        LET holders == {k \in Pks(categories) :
                           categories[k].slug = response.slug}
        IN  /\ Cardinality(holders) <= 1
            /\ IF \E k \in holders : categories[k].is_active
               THEN /\ response.error = ""
                    /\ ~IsNone(response.found)
                    /\ Val(response.found) \in holders
                    /\ categories[Val(response.found)].is_active
               ELSE /\ response.error = "Http404"
                    /\ IsNone(response.found)

\* The slug of a stored, inactive category is looked up and not found.
C13_Witness ==
    /\ response.op = "get_by_slug"
    /\ response.error = "Http404"
    /\ \E k \in Pks(categories) :
          categories[k].slug = response.slug /\ ~categories[k].is_active

----------------------------------------------------------------------------
(* Deletion.  QuerySet.delete and Model.delete collect, before they write, *)
(* every row that reaches a deleted row through an on_delete=CASCADE       *)
(* foreign key, and delete the whole collection.                           *)

Without(table, S) == [k \in Pks(table) \ S |-> table[k]]

\* A collector that stops at the rows it was given.
CollectGivenOnly(S) == S

\* The categories collected from the set S along Category.parent, which may
\* run in a circle.
RECURSIVE CollectCategories(_)
CollectCategories(S) ==
    LET more == S \cup {c \in Pks(categories) :
                           /\ ~IsNone(categories[c].parent)
                           /\ Val(categories[c].parent) \in S}
    IN  IF more = S THEN S ELSE CollectCategories(more)

\* The products collected along Product.category.
CollectProducts(cats) == {p \in Pks(products) : products[p].category \in cats}

\* The delete view of CategoryAdmin.
AdminDeleteCategory(pk) ==
    LET cats == CollectCategories({pk})
        prods == CollectProducts(cats)
    IN  /\ pk \in Pks(categories)
        /\ categories' = Without(categories, cats)
        /\ products' = Without(products, prods)
        /\ response' = [op |-> "category_delete", pk |-> pk,
                        categories |-> cats, products |-> prods]
        /\ UNCHANGED <<vacancies, clock, users, outbox, requests>>

\* The delete view of ProductAdmin.
AdminDeleteProduct(pk) ==
    /\ pk \in Pks(products)
    /\ products' = Without(products, {pk})
    /\ response' = [op |-> "product_delete", pk |-> pk]
    /\ UNCHANGED <<categories, vacancies, clock, users, outbox, requests>>

----------------------------------------------------------------------------
(* The catalog under creations and deletions.                              *)

NextCascade ==
    \/ \E c \in CategoryTreeInputs, parent \in ParentInputs :
          AdminAddCategory(c[1], c[2], parent, 0, TRUE)
    \/ \E pk \in Pks(categories), parent \in ParentInputs :
          AdminChangeCategory(pk, parent)
    \/ \E c \in Pks(categories) :
          AdminAddProduct(TxtBread, FreshSlug, 1000, 0, c, TRUE)
    \/ \E pk \in Pks(categories) : AdminDeleteCategory(pk)
    \/ \E pk \in Pks(products) : AdminDeleteProduct(pk)

SpecCascade == Init /\ [][NextCascade]_vars

\* C20: deleting a category deletes every descendant category and every
\* product of a deleted category, so that after any creations and
\* deletions every stored product references a stored category and every
\* category parent that is set references a stored category.
C20_CascadeKeepsReferences ==
    /\ \A p \in Pks(products) : products[p].category \in Pks(categories)
    /\ \A c \in Pks(categories) :
          ~IsNone(categories[c].parent) =>
              Val(categories[c].parent) \in Pks(categories)
    /\ response.op = "category_delete" => response.pk \notin Pks(categories)

\* A deletion that took a grandchild category and a product of a descendant
\* along with the category named.
C20_Witness ==
    /\ response.op = "category_delete"
    /\ Cardinality(response.categories) >= 3
    /\ response.products # {}
    /\ \A p \in response.products : p \notin Pks(products)

----------------------------------------------------------------------------
(* The store under the calls of both repositories' filter.                 *)

\* <<name, price, discount>> and <<title, short_description, description>>
\* of the rows the reads run over.
ReadProductInputs == {<<TxtWholeMilk, 1000, 0>>, <<TxtBread, 1500, 1250>>}
ReadVacancyInputs ==
    {<<TxtCook, TxtBar, TxtBar>>, <<TxtGrill, TxtBar, TxtCook>>}

\* The calls read: no argument, a search under both values of only_active
\* ordered by the annotation or by an order_field that names no column, and
\* a keyword filter does not declare.
ReadCalls ==
    {<<>>, [category_slug |-> SlugDairy]} \cup
    {[search_query |-> Some(TxtMilk), only_active |-> a, order_field |-> f] :
        a \in BOOLEAN, f \in {Some(TxtFinalPrice), Some(TxtBogus)}}

NextReads ==
    \/ \E p \in ReadProductInputs, active \in BOOLEAN :
          AdminAddProduct(p[1], FreshSlug, p[2], p[3], 1, active)
    \/ \E t \in ReadVacancyInputs :
          AdminAddVacancy(t[1], t[2], t[3], None, None, TRUE)
    \/ \E kwargs \in ReadCalls : ProductFilter(kwargs)
    \/ \E q \in {None, Some(TxtCOOK)}, only_active \in BOOLEAN :
          VacancyFilter(q, only_active)

SpecReads == InitCatalog /\ [][NextReads]_vars

\* C11: ProductRepository.filter and VacancyRepository.filter are pure
\* reads: whatever the arguments, a step that ends in the answer of either
\* leaves the stored products, vacancies and categories, with every field
\* of every row, as they were.
C11_FiltersArePureReads ==
    [][response'.op \in {"product_filter", "vacancy_filter"} =>
          UNCHANGED <<products, vacancies, categories>>]_vars

\* A product filter has answered with rows while products, vacancies and a
\* category are stored.
C11_Witness ==
    /\ response.op = "product_filter"
    /\ response.items # <<>>
    /\ Pks(products) # {}
    /\ Pks(vacancies) # {}
    /\ Pks(categories) # {}

----------------------------------------------------------------------------
(* apps.pages: the contact form, the mail service and ContactView.         *)

\* The fields ContactForm declares.
ContactFormFields ==
    {"full_name", "email", "phone_number", "subject", "message"}

\* A required CharField strips its value and refuses an empty one.
CharFieldErrors(value) == IF Strip(value) = <<>> THEN {"required"} ELSE {}

\* EmailField: one "@" with something on both sides of it.
EmailFieldErrors(value) ==
    LET at == {i \in DOMAIN value : value[i] = "@"}
    IN  IF Strip(value) = <<>> THEN {"required"}
        ELSE IF Cardinality(at) = 1 /\ at \cap {1, Len(value)} = {} THEN {}
        ELSE {"invalid"}

\* PhoneNumberField(region="RU"): a national number of ten digits after
\* "+7".
Digits == {"0", "1", "2", "3", "4", "5", "6", "7", "8", "9"}
PhoneNumberFieldErrors(value) ==
    IF Strip(value) = <<>> THEN {"required"}
    ELSE IF /\ Len(value) = 12
            /\ value[1] = "+" /\ value[2] = "7"
            /\ \A i \in 3..12 : value[i] \in Digits
    THEN {}
    ELSE {"invalid"}

\* ContactForm.errors for the submitted data: field -> error codes.
ContactFormErrors(data) ==
    [f \in ContactFormFields |->
        IF f = "email" THEN EmailFieldErrors(data[f])
        ELSE IF f = "phone_number" THEN PhoneNumberFieldErrors(data[f])
        ELSE CharFieldErrors(data[f])]

ContactFormIsValid(data) ==
    \A f \in ContactFormFields : ContactFormErrors(data)[f] = {}

\* form.cleaned_data of a valid form: one entry per declared field.
ContactCleanedData(data) == [f \in ContactFormFields |-> data[f]]

\* The address settings.DEFAULT_FROM_EMAIL holds.
DEFAULT_FROM_EMAIL == <<"s", "h", "o", "p", "@", "m">>

\* EmailService.send_email: the message it hands to the transport.
EmailMessage(to, template_name) ==
    [from_email |-> DEFAULT_FROM_EMAIL, to |-> to,
     template_name |-> template_name]

\* EmailService.send_contact_message
ContactMessage(contact_context) ==
    EmailMessage(<<DEFAULT_FROM_EMAIL>>, "emails/contact_message.html")

\* EmailService.send_contact_reply
ContactReply(contact_context) ==
    EmailMessage(<<contact_context["email"]>>, "emails/contact_reply.html")

\* The keys form_valid reads from cleaned_data, with the key of
\* contact_context each one fills.
ContactContextSources ==
    <<[key |-> "name", from |-> "name"],
      [key |-> "email", from |-> "email"],
      [key |-> "phone", from |-> "phone"],
      [key |-> "subject", from |-> "subject"],
      [key |-> "message", from |-> "message"]>>

\* What the two sends of form_valid's try block leave behind: the messages
\* the transport took, and whether one of the sends raised.
\* EmailMessage.send raises when the transport fails.
ContactSends(contact_context, transport) ==
    IF transport = "fails"
    THEN [sent |-> <<>>, raised |-> TRUE]
    ELSE IF transport = "fails_on_reply"
    THEN [sent |-> <<ContactMessage(contact_context)>>, raised |-> TRUE]
    ELSE [sent |-> <<ContactMessage(contact_context),
                     ContactReply(contact_context)>>,
          raised |-> FALSE]

\* ContactView answering a POST: the outcome of form_invalid or form_valid.
\* cleaned_data[key] of a key the form does not declare raises KeyError
\* ahead of the try block, and nothing catches it.
ContactViewPost(data, transport) ==
    LET cleaned_data == ContactCleanedData(data)
        missing == {i \in DOMAIN ContactContextSources :
                       ContactContextSources[i].from \notin DOMAIN cleaned_data}
        contact_context ==
            [k \in {ContactContextSources[i].key :
                       i \in DOMAIN ContactContextSources} |->
                cleaned_data[ContactContextSources[
                    CHOOSE i \in DOMAIN ContactContextSources :
                        ContactContextSources[i].key = k].from]]
        sends == ContactSends(contact_context, transport)
    IN  IF ~ContactFormIsValid(data)
        THEN [error |-> "", status |-> 200, location |-> "",
              notices |-> <<"error">>, sent |-> <<>>]
        ELSE IF missing # {}
        THEN [error |-> "KeyError", status |-> 500, location |-> "",
              notices |-> <<>>, sent |-> <<>>]
        ELSE [error |-> "", status |-> 302, location |-> "pages:contact",
              notices |-> IF sends.raised THEN <<"error">> ELSE <<"success">>,
              sent |-> sends.sent]

\* POST /contact
ContactPost(data, transport) ==
    LET out == ContactViewPost(data, transport)
    IN  /\ Len(outbox) + Len(out.sent) <= MaxOutbox
        /\ outbox' = outbox \o out.sent
        /\ response' = [op |-> "contact_post", data |-> data,
                        transport |-> transport,
                        valid |-> ContactFormIsValid(data),
                        error |-> out.error, status |-> out.status,
                        location |-> out.location, notices |-> out.notices,
                        sent |-> out.sent]
        /\ UNCHANGED <<products, categories, vacancies, clock, users, requests>>

----------------------------------------------------------------------------
(* The contact page under submissions.                                     *)

TxtAnna == <<"A", "n", "n", "a">>
TxtHello == <<"H", "e", "l", "l", "o">>
TxtBlank == <<" ">>
TxtAnnaMail == <<"a", "n", "n", "a", "@", "m">>
TxtBobMail == <<"b", "o", "b", "@", "m">>
TxtNoMail == <<"a", "n", "n", "a">>
TxtPhone == <<"+", "7", "9", "0", "0", "1", "2", "3", "4", "5", "6", "7">>
TxtNoPhone == <<"1", "2", "3">>

ContactInputs ==
    [full_name : {TxtAnna, <<>>},
     email : {TxtAnnaMail, TxtBobMail, TxtNoMail},
     phone_number : {TxtPhone, TxtNoPhone},
     subject : {TxtHello, TxtBlank},
     message : {TxtHello, <<>>}]

TransportInputs == {"works", "fails", "fails_on_reply"}

NextContact ==
    \E data \in ContactInputs, transport \in TransportInputs :
        ContactPost(data, transport)

SpecContact == Init /\ [][NextContact]_vars

\* C14: a valid contact submission with a working mail transport sends
\* exactly two messages, one notification to DEFAULT_FROM_EMAIL and one
\* acknowledgment to the submitter's address.
C14_ValidContactSendsTwoMessages ==
    (/\ response.op = "contact_post"
     /\ response.valid
     /\ response.transport = "works") =>
        /\ Len(response.sent) = 2
        /\ \E i \in DOMAIN response.sent :
              response.sent[i].to = <<DEFAULT_FROM_EMAIL>>
        /\ \E i \in DOMAIN response.sent :
              response.sent[i].to = <<response.data.email>>

\* C15: a valid contact submission whose delivery fails is still answered:
\* no exception leaves form_valid, an error notice is recorded, and the
\* answer is the redirect to the contact page a successful submission gets.
C15_DeliveryFailureStillAnswered ==
    (/\ response.op = "contact_post"
     /\ response.valid
     /\ response.transport # "works") =>
        /\ response.error = ""
        /\ response.notices = <<"error">>
        /\ response.status = 302
        /\ response.location = "pages:contact"

\* s is t or the beginning of t.
IsPrefix(s, t) == Len(s) <= Len(t) /\ s = SubSeq(t, 1, Len(s))

\* C27: in form_valid the operator notification is sent before the
\* acknowledgment; when the notification send fails the acknowledgment is
\* never attempted; and every valid submission records exactly one notice,
\* the success notice when both sends completed and the error notice
\* otherwise.
C27_NotificationFirstOneNotice ==
    (response.op = "contact_post" /\ response.valid) =>
        LET context == [email |-> response.data.email]
        IN  /\ IsPrefix(response.sent,
                        <<ContactMessage(context), ContactReply(context)>>)
            /\ response.transport = "works" => Len(response.sent) = 2
            /\ response.transport = "fails" => response.sent = <<>>
            /\ response.transport = "fails_on_reply" => Len(response.sent) = 1
            /\ response.notices =
                   IF Len(response.sent) = 2 THEN <<"success">>
                   ELSE <<"error">>

----------------------------------------------------------------------------
(* apps.accounts: the user model and the sign-up form.                     *)

\* settings.py sets no AUTH_USER_MODEL, which leaves the framework's
\* default in force.
AUTH_USER_MODEL == "auth.User"

\* django.contrib.auth.get_user_model()
get_user_model == AUTH_USER_MODEL

\* The columns of AbstractUser and of apps.accounts.models.User, which adds
\* phone_number and middle_name.
AbstractUserFields ==
    {"username", "first_name", "last_name", "email", "password", "is_staff",
     "is_active", "is_superuser", "last_login", "date_joined"}
ModelFields(model) ==
    IF model = "accounts.User"
    THEN AbstractUserFields \cup {"phone_number", "middle_name"}
    ELSE AbstractUserFields

\* The unique=True columns: username on AbstractUser; email and
\* phone_number on apps.accounts.models.User.
UniqueFields(model) ==
    IF model = "accounts.User" THEN {"username", "email", "phone_number"}
    ELSE {"username"}

\* SignUpForm.Meta.fields and the fields the form class declares itself.
SignUpFormMetaFields ==
    {"username", "email", "phone_number", "first_name", "last_name",
     "middle_name"}
SignUpFormDeclaredFields == {"password1", "password2"}

\* Creating a ModelForm class raises FieldError when Meta.fields names a
\* field that the model does not have and the form does not declare.
SignUpFormClassError ==
    IF (SignUpFormMetaFields \ ModelFields(get_user_model))
           \ SignUpFormDeclaredFields # {}
    THEN "FieldError"
    ELSE ""

\* apps.accounts.views imports SignUpForm when the module is loaded, so the
\* views of the module exist only if the form class could be created.
AccountsViewsError == SignUpFormClassError

\* password holds what set_password last stored: "initial" for the password
\* the row was created with.
UserRow(username, email, phone_number) ==
    [username |-> username, email |-> email, phone_number |-> phone_number,
     password |-> "initial"]

\* The unique fields of the user model on which the submitted data collide
\* with a stored row.
UniqueConflicts(data) ==
    {f \in UniqueFields(get_user_model) \cap DOMAIN data :
        \E u \in Pks(users) : users[u][f] = data[f]}

----------------------------------------------------------------------------
(* apps.accounts.views.SignUpView.  A request is served in steps, and the  *)
(* steps of two requests may interleave: the form is validated against the *)
(* store, and only then is the row written.                                *)

SignUpAnswer(status, error, errors, notices, created) ==
    [status |-> status, error |-> error, errors |-> errors,
     notices |-> notices, created |-> created]

\* The server takes a POST of the sign-up form.
SignUpReceive(r, data) ==
    /\ r \notin DOMAIN requests
    /\ requests' = Put(requests, r,
                       [pc |-> "received", data |-> data,
                        after |-> {q \in DOMAIN requests :
                                      requests[q].pc = "done"},
                        answer |-> SignUpAnswer(0, "", {}, <<>>, None)])
    /\ UNCHANGED <<products, categories, vacancies, clock, users, outbox,
                   response>>

\* The next step of the request r.  Received: the view is looked up and
\* form.is_valid() runs validate_unique; an invalid form is answered by
\* form_invalid.  Validated: form_valid saves the row; the store refuses a
\* duplicate of a unique column with IntegrityError, which SignUpView does
\* not catch.
SignUpStep(r) ==
    LET req == requests[r]
        conflicts == UniqueConflicts(req.data)
        done(answer) == [req EXCEPT !.pc = "done", !.answer = answer]
    IN  /\ r \in DOMAIN requests
        /\ req.pc # "done"
        /\ IF AccountsViewsError # ""
           THEN /\ requests' = [requests EXCEPT ![r] =
                       done(SignUpAnswer(500, AccountsViewsError, {}, <<>>,
                                         None))]
                /\ users' = users
           ELSE IF req.pc = "received"
           THEN /\ requests' = [requests EXCEPT ![r] =
                       IF conflicts # {}
                       THEN done(SignUpAnswer(200, "", conflicts,
                                              <<"error">>, None))
                       ELSE [req EXCEPT !.pc = "validated"]]
                /\ users' = users
           ELSE IF conflicts # {}
           THEN /\ requests' = [requests EXCEPT ![r] =
                       done(SignUpAnswer(500, "IntegrityError", {}, <<>>,
                                         None))]
                /\ users' = users
           ELSE /\ requests' = [requests EXCEPT ![r] =
                       done(SignUpAnswer(302, "", {}, <<"success">>,
                                         Some(NextPk(users))))]
                /\ users' = Put(users, NextPk(users),
                                UserRow(req.data.username, req.data.email,
                                        req.data.phone_number))
        /\ UNCHANGED <<products, categories, vacancies, clock, outbox,
                       response>>

----------------------------------------------------------------------------
(* The sign-up page under requests.                                        *)

TxtAnnaName == <<"a", "n", "n", "a">>
TxtBobName == <<"b", "o", "b">>
TxtPhoneBob == <<"+", "7", "9", "0", "0", "7", "6", "5", "4", "3", "2", "1">>

SignUpInputs ==
    [username : {TxtAnnaName, TxtBobName},
     email : {TxtAnnaMail, TxtBobMail},
     phone_number : {TxtPhone, TxtPhoneBob}]

RequestSlots == 1..MaxRequests

NextSignUp ==
    \/ \E r \in RequestSlots, data \in SignUpInputs : SignUpReceive(r, data)
    \/ \E r \in RequestSlots : SignUpStep(r)

SpecSignUp == Init /\ [][NextSignUp]_vars

Done(r) == r \in DOMAIN requests /\ requests[r].pc = "done"

\* b was received after a had been answered.
Sequential(a, b) == a \in requests[b].after

\* Neither request was answered before the other was received.
Concurrent(a, b) ==
    a # b /\ a \notin requests[b].after /\ b \notin requests[a].after

\* C16: of two sequential sign-up attempts with the same email the first
\* succeeds and creates a user, and the second fails with a uniqueness
\* validation failure on email and creates no user; no two stored users
\* share an email, a username or a phone number.
C16_SecondSignUpWithSameEmailRefused ==
    /\ \A a, b \in DOMAIN requests :
          (/\ Done(a) /\ Done(b)
           /\ requests[a].after = {}
           /\ Sequential(a, b)
           /\ requests[a].data.email = requests[b].data.email) =>
              /\ requests[a].answer.status = 302
              /\ ~IsNone(requests[a].answer.created)
              /\ requests[b].answer.error = ""
              /\ "email" \in requests[b].answer.errors
              /\ IsNone(requests[b].answer.created)
    /\ \A u, v \in Pks(users) :
          u # v => \A f \in {"email", "username", "phone_number"} :
                       users[u][f] # users[v][f]

\* C17: two sign-up requests with the same username or email that are
\* served concurrently leave exactly one user stored, and the request
\* that lost is answered with a validation failure on the field in
\* conflict, not with an unhandled error.
C17_ConcurrentSignUpsOneWins ==
    \A a, b \in DOMAIN requests :
        \A f \in {"username", "email"} :
            (/\ Done(a) /\ Done(b)
             /\ Concurrent(a, b)
             /\ requests[a].data[f] = requests[b].data[f]) =>
                /\ Cardinality({u \in Pks(users) :
                                   users[u][f] = requests[a].data[f]}) = 1
                /\ \E w, l \in {a, b} :
                      /\ w # l
                      /\ requests[w].answer.status = 302
                      /\ requests[l].answer.error = ""
                      /\ f \in requests[l].answer.errors

----------------------------------------------------------------------------
(* apps.accounts.views.PasswordResetConfirmView.                           *)

\* django.contrib.auth is installed with its admin, which adds rows of the
\* user model; of its unique columns that model has username alone when it
\* is auth.User.
AdminAddUser(username, email) ==
    /\ Cardinality(Pks(users)) < MaxUsers
    /\ UniqueConflicts([username |-> username, email |-> email]) = {}
    /\ users' = Put(users, NextPk(users), UserRow(username, email, <<>>))
    /\ response' = [op |-> "user_add", pk |-> NextPk(users)]
    /\ UNCHANGED <<products, categories, vacancies, clock, outbox, requests>>

\* The token of the URL after the first visit has moved the real one into
\* the session.
reset_url_token == "set-password"

\* token_generator.check_token(user, token): of the tokens the model
\* submits, "issued" is the one made for the user and still fresh.
check_token(token) == token = "issued"

HttpAnswer(kind, status, location, page, notices, error) ==
    [kind |-> kind, status |-> status, location |-> location, page |-> page,
     notices |-> notices, error |-> error]

\* The message form_valid builds: to=[self.user.email], and the sender the
\* settings give.
PasswordResetCompleteMessage(req) ==
    EmailMessage(<<users[req.uid].email>>,
                 "emails/password_reset_complete.html")

\* PasswordResetConfirmView.form_valid: the notification is sent, then the
\* parent saves the password and redirects with the success message.
\* EmailMessage.send raises when the transport fails, and the statements
\* after it do not run.
PasswordResetFormValid(req) ==
    IF req.transport = "works"
    THEN [answer |-> HttpAnswer("HttpResponseRedirect", 302,
                                "accounts:signin", "", <<"success">>, ""),
          sent |-> <<PasswordResetCompleteMessage(req)>>, saved |-> TRUE]
    ELSE [answer |-> HttpAnswer("", 500, "", "", <<>>, "SMTPException"),
          sent |-> <<>>, saved |-> FALSE]

\* super().dispatch(request, uidb64=..., token=...) of the framework's
\* PasswordResetConfirmView, with the validlink it leaves on the view.  req
\* holds the uid and the token of the URL, the token the session keeps,
\* the method, whether the submitted passwords make a valid form, and the
\* state of the mail transport.  sent and saved are what form_valid, when
\* it ran, handed to the transport and whether the new password was stored.
ParentDispatch(req) ==
    IF req.uid \in Pks(users) /\ req.token = reset_url_token
           /\ check_token(req.session_token)
    THEN IF req.method = "POST" /\ req.form_ok
         THEN [validlink |-> TRUE,
               answer |-> PasswordResetFormValid(req).answer,
               sent |-> PasswordResetFormValid(req).sent,
               saved |-> PasswordResetFormValid(req).saved]
         ELSE [validlink |-> TRUE,
               answer |-> HttpAnswer("TemplateResponse", 200, "",
                                     "set_password_form", <<>>, ""),
               sent |-> <<>>, saved |-> FALSE]
    ELSE IF req.uid \in Pks(users) /\ req.token # reset_url_token
                /\ check_token(req.token)
    THEN [validlink |-> FALSE,
          answer |-> HttpAnswer("HttpResponseRedirect", 302,
                                "password-reset/<uidb64>/set-password", "",
                                <<>>, ""),
          sent |-> <<>>, saved |-> FALSE]
    ELSE [validlink |-> FALSE,
          answer |-> HttpAnswer("TemplateResponse", 200, "",
                                "reset_unsuccessful", <<>>, ""),
          sent |-> <<>>, saved |-> FALSE]

\* PasswordResetConfirmView.dispatch
PasswordResetConfirmDispatch(req) ==
    LET parent == ParentDispatch(req)
    IN  IF parent.answer.kind = "TemplateResponse" /\ ~parent.validlink
        THEN HttpAnswer("HttpResponseRedirect", 302, "accounts:signin", "",
                        parent.answer.notices \o <<"error">>, "")
        ELSE parent.answer

\* A request to password-reset/<uidb64>/<token>.  The view is there to be
\* dispatched only when apps.accounts.views could be loaded; when it is,
\* the messages form_valid sent are with the transport and the password it
\* saved is in the store.
PasswordResetConfirm(req) ==
    LET loaded == AccountsViewsError = ""
        sent == IF loaded THEN ParentDispatch(req).sent ELSE <<>>
        saved == IF loaded THEN ParentDispatch(req).saved ELSE FALSE
    IN  /\ Len(outbox) + Len(sent) <= MaxOutbox
        /\ outbox' = outbox \o sent
        /\ users' = IF saved
                     THEN [users EXCEPT ![req.uid].password = "reset"]
                     ELSE users
        /\ response' =
               [op |-> "password_reset_confirm", request |-> req,
                answer |->
                    IF loaded THEN PasswordResetConfirmDispatch(req)
                    ELSE HttpAnswer("", 500, "", "", <<>>, AccountsViewsError),
                sent |-> sent,
                password_before |-> IF req.uid \in Pks(users)
                                    THEN users[req.uid].password ELSE ""]
        /\ UNCHANGED <<products, categories, vacancies, clock, requests>>

----------------------------------------------------------------------------
(* The password-reset confirmation page under requests.                    *)

TokenInputs == {reset_url_token, "issued", "expired"}
SessionTokenInputs == {"", "issued", "expired"}

PasswordResetInputs ==
    [uid : 1..MaxUsers, token : TokenInputs,
     session_token : SessionTokenInputs, method : {"GET", "POST"},
     form_ok : BOOLEAN, transport : {"works", "fails"}]

NextPasswordReset ==
    \/ \E username \in {TxtAnnaName, TxtBobName} :
          AdminAddUser(username, TxtAnnaMail)
    \/ \E req \in PasswordResetInputs : PasswordResetConfirm(req)

SpecPasswordReset == Init /\ [][NextPasswordReset]_vars

\* The link of the request names a stored user and carries, in the URL or
\* behind the session, a token that is good for that user.
ValidLink(req) ==
    /\ req.uid \in Pks(users)
    /\ \/ req.token = "issued"
       \/ req.token = "set-password" /\ req.session_token = "issued"

\* C18: a request to the password-reset confirmation page with an invalid
\* or expired link is answered with a redirect to the sign-in page and an
\* error notice and never with the set-password form; a request with a
\* valid link gets the parent view's response unchanged, without an error
\* notice.
C18_InvalidResetLinkRedirects ==
    response.op = "password_reset_confirm" =>
        IF ValidLink(response.request)
        THEN /\ response.answer = ParentDispatch(response.request).answer
             /\ "error" \notin SeqRange(response.answer.notices)
        ELSE /\ response.answer.status = 302
             /\ response.answer.location = "accounts:signin"
             /\ response.answer.notices = <<"error">>
             /\ response.answer.page # "set_password_form"

\* The request submits a valid new password through a link that is good:
\* form_valid runs.
ReachesFormValid(req) ==
    /\ req.method = "POST" /\ req.form_ok
    /\ req.uid \in Pks(users)
    /\ req.token = reset_url_token /\ check_token(req.session_token)

\* C28: in PasswordResetConfirmView.form_valid exactly one completion
\* email is sent, to the user's address, and it is sent before the new
\* password is persisted: when the send raises, the exception propagates
\* and the stored password is as it was, and the password only ever
\* changes after a send that did not raise.
C28_ResetMailBeforePassword ==
    response.op = "password_reset_confirm" =>
        LET req == response.request
            changed == /\ req.uid \in Pks(users)
                       /\ users[req.uid].password # response.password_before
        IN  /\ changed => Len(response.sent) = 1
            /\ ReachesFormValid(req) =>
                  IF req.transport = "works"
                  THEN /\ Len(response.sent) = 1
                       /\ response.sent[1].to = <<users[req.uid].email>>
                       /\ users[req.uid].password = "reset"
                       /\ response.answer.status = 302
                  ELSE /\ response.sent = <<>>
                       /\ response.answer.error = "SMTPException"
                       /\ ~changed

----------------------------------------------------------------------------
(* apps.catalog.views.ProductDetailView                                    *)

\* A queryset of every product, active or not.
ProductDetailQuerysetUnfiltered ==
    ProductFilterOutcomes([only_active |-> FALSE])

\* ProductDetailView.get_queryset: ProductRepository.filter()
ProductDetailQueryset == ProductFilterOutcomes(<<>>)

\* GET product/<slug:slug>.  DetailView.get_object narrows the queryset to
\* the slug of the URL and raises Http404 when no row is left.
ProductDetailGet(slug) ==
    /\ \E out \in ProductDetailQueryset :
          LET found == {pk \in SeqRange(out.items) : products[pk].slug = slug}
          IN  response' =
                  [op |-> "product_detail", slug |-> slug,
                   status |-> IF out.error # "" THEN 500
                              ELSE IF found = {} THEN 404
                              ELSE 200,
                   object |-> IF out.error # "" \/ found = {} THEN None
                              ELSE Some(CHOOSE pk \in found : TRUE)]
    /\ UNCHANGED <<products, categories, vacancies, clock,
                   users, outbox, requests>>

----------------------------------------------------------------------------
(* The product pages under activations and deactivations.                  *)

SlugMilk == <<"m", "i", "l", "k">>

\* <<name, slug>> of the products created.
DetailProductInputs == {<<TxtWholeMilk, SlugMilk>>, <<TxtBread, SlugBread>>}

NextDetail ==
    \/ \E p \in DetailProductInputs, active \in BOOLEAN :
          AdminAddProduct(p[1], p[2], 1000, 0, 1, active)
    \/ \E pk \in Pks(products), active \in BOOLEAN,
          discount \in {0, 1250} :
          AdminListEditProduct(pk, active, discount)
    \/ \E pk \in Pks(products) : AdminDeleteProduct(pk)
    \/ \E slug \in {SlugMilk, SlugBread, SlugBogus} : ProductDetailGet(slug)

SpecDetail == InitCatalog /\ [][NextDetail]_vars

----------------------------------------------------------------------------
(* config.urls and the urls.py of the apps: the routes of the site.  A URL *)
(* is the sequence of its path segments, each a text; a route's path is a  *)
(* sequence of literal segments and of parameters with their converters.   *)

TxtCatalog == <<"c", "a", "t", "a", "l", "o", "g">>
TxtProduct == <<"p", "r", "o", "d", "u", "c", "t">>
TxtVacancies == <<"v", "a", "c", "a", "n", "c", "i", "e", "s">>
TxtContact == <<"c", "o", "n", "t", "a", "c", "t">>
TxtPrivacy == <<"p", "r", "i", "v", "a", "c", "y">>
TxtTerms == <<"t", "e", "r", "m", "s">>
TxtOffer == <<"o", "f", "f", "e", "r">>
TxtAccounts == <<"a", "c", "c", "o", "u", "n", "t", "s">>
TxtSignIn == <<"s", "i", "g", "n", "i", "n">>
TxtSignOut == <<"s", "i", "g", "n", "o", "u", "t">>
TxtSignUp == <<"s", "i", "g", "n", "u", "p">>
TxtPasswordReset ==
    <<"p", "a", "s", "s", "w", "o", "r", "d", "-", "r", "e", "s", "e", "t">>

Literal(text) == [kind |-> "literal", text |-> text, converter |-> ""]
Parameter(converter, name) ==
    [kind |-> "parameter", text |-> name, converter |-> converter]

Route(name, view, path) == [name |-> name, view |-> view, path |-> path]

\* The routes in the order the resolver tries them: the include()s of
\* config.urls, each with the urlpatterns of its app under its namespace.
ROOT_URLCONF ==
    <<Route("catalog:product_list", "ProductListView", <<Literal(TxtCatalog)>>),
      Route("catalog:product_detail", "ProductDetailView",
            <<Literal(TxtCatalog), Literal(TxtProduct),
              Parameter("slug", "slug")>>),
      Route("pages:home", "CatalogRedirectView", <<>>),
      Route("pages:contact", "ContactView", <<Literal(TxtContact)>>),
      Route("pages:privacy", "PrivacyView", <<Literal(TxtPrivacy)>>),
      Route("pages:terms", "TermsView", <<Literal(TxtTerms)>>),
      Route("pages:offer", "OfferView", <<Literal(TxtOffer)>>),
      Route("vacancies:vacancy_list", "VacancyListView",
            <<Literal(TxtVacancies)>>),
      Route("accounts:signin", "SignInView",
            <<Literal(TxtAccounts), Literal(TxtSignIn)>>),
      Route("accounts:signout", "SignOutView",
            <<Literal(TxtAccounts), Literal(TxtSignOut)>>),
      Route("accounts:signup", "SignUpView",
            <<Literal(TxtAccounts), Literal(TxtSignUp)>>),
      Route("accounts:password_reset", "PasswordResetView",
            <<Literal(TxtAccounts), Literal(TxtPasswordReset)>>),
      Route("accounts:password_reset_confirm", "PasswordResetConfirmView",
            <<Literal(TxtAccounts), Literal(TxtPasswordReset),
              Parameter("str", "uidb64"), Parameter("str", "token")>>)>>

\* The characters of SlugConverter's regex, [-a-zA-Z0-9_]+.
SlugChars == SeqRange(UpperCase) \cup SeqRange(LowerCase) \cup Digits
                 \cup {"-", "_"}

\* A path converter's regex matches the whole of the segment.
ConverterMatches(converter, segment) ==
    /\ segment # <<>>
    /\ converter = "slug" => \A i \in DOMAIN segment : segment[i] \in SlugChars
    /\ converter = "int" => \A i \in DOMAIN segment : segment[i] \in Digits

\* str(n) of a non-negative int: its decimal numeral.
RECURSIVE Numeral(_)
Numeral(n) ==
    IF n < 10 THEN <<ToString(n)>>
    ELSE Numeral(n \div 10) \o <<ToString(n % 10)>>

ParameterNames(route) ==
    {route.path[i].text : i \in {j \in DOMAIN route.path :
                                    route.path[j].kind = "parameter"}}

\* The route can be reversed with the keyword arguments: they are its
\* parameters, and each value, as text, matches its converter.
Reverses(route, kwargs) ==
    /\ DOMAIN kwargs = ParameterNames(route)
    /\ \A i \in DOMAIN route.path :
          route.path[i].kind = "parameter" =>
              ConverterMatches(route.path[i].converter,
                               kwargs[route.path[i].text])

\* django.urls.reverse(viewname, kwargs=kwargs): the URL of the first route
\* of that name the arguments fit, or None for NoReverseMatch.
reverse(viewname, kwargs) ==
    LET fits == {i \in DOMAIN ROOT_URLCONF :
                    /\ ROOT_URLCONF[i].name = viewname
                    /\ Reverses(ROOT_URLCONF[i], kwargs)}
        route == ROOT_URLCONF[CHOOSE i \in fits : \A j \in fits : i <= j]
    IN  IF fits = {} THEN None
        ELSE Some([i \in DOMAIN route.path |->
                      IF route.path[i].kind = "literal"
                      THEN route.path[i].text
                      ELSE kwargs[route.path[i].text]])

\* The URL is one the route's path matches.
RouteMatches(route, url) ==
    /\ Len(url) = Len(route.path)
    /\ \A i \in DOMAIN route.path :
          IF route.path[i].kind = "literal"
          THEN url[i] = route.path[i].text
          ELSE ConverterMatches(route.path[i].converter, url[i])

\* django.urls.resolve(path): the first route that matches, with the
\* keyword arguments its parameters capture, or None for Resolver404.
resolve(url) ==
    LET hits == {i \in DOMAIN ROOT_URLCONF : RouteMatches(ROOT_URLCONF[i], url)}
        route == ROOT_URLCONF[CHOOSE i \in hits : \A j \in hits : i <= j]
    IN  IF hits = {} THEN None
        ELSE Some([name |-> route.name, view |-> route.view,
                   kwargs |-> [n \in ParameterNames(route) |->
                                  url[CHOOSE i \in DOMAIN route.path :
                                         /\ route.path[i].kind = "parameter"
                                         /\ route.path[i].text = n]]])

\* Product.get_absolute_url and Vacancy.get_absolute_url: the view name
\* each reverses and the keyword arguments it gives.
ProductAbsoluteUrl(pk) ==
    reverse("catalog:product_detail", [slug |-> products[pk].slug])
VacancyAbsoluteUrl(pk) ==
    reverse("vacancies:vacancy_detail", [pk |-> Numeral(pk)])

\* A template or the admin's "view on site" link asks a stored row for its
\* URL; reverse raises NoReverseMatch when it finds no route.
CallGetAbsoluteUrl(model, pk) ==
    LET url == IF model = "Product" THEN ProductAbsoluteUrl(pk)
               ELSE VacancyAbsoluteUrl(pk)
    IN  /\ pk \in (IF model = "Product" THEN Pks(products) ELSE Pks(vacancies))
        /\ response' = [op |-> "get_absolute_url", model |-> model, pk |-> pk,
                        error |-> IF IsNone(url) THEN "NoReverseMatch" ELSE "",
                        url |-> url]
        /\ UNCHANGED <<products, categories, vacancies, clock,
                       users, outbox, requests>>

\* apps.pages.views.CatalogRedirectView
CatalogRedirectPatternName == "catalog:category_list"
CatalogRedirectPermanent == TRUE

\* RedirectView.get: get_redirect_url reverses pattern_name with the
\* arguments of the URL; a URL found is answered with the permanent or the
\* temporary redirect, and NoReverseMatch is not caught.
RedirectViewGet(pattern_name, permanent, kwargs) ==
    LET url == reverse(pattern_name, kwargs)
    IN  IF IsNone(url)
        THEN [status |-> 500, error |-> "NoReverseMatch", url |-> None]
        ELSE [status |-> IF permanent THEN 301 ELSE 302, error |-> "",
              url |-> url]

\* GET of a URL that resolves to CatalogRedirectView, the home path.
HomeGet(url) ==
    LET match == resolve(url)
    IN  /\ ~IsNone(match)
        /\ Val(match).view = "CatalogRedirectView"
        /\ response' =
               [op |-> "home_get", url |-> url, route |-> Val(match).name,
                answer |-> RedirectViewGet(CatalogRedirectPatternName,
                                           CatalogRedirectPermanent,
                                           Val(match).kwargs)]
        /\ UNCHANGED <<products, categories, vacancies, clock,
                       users, outbox, requests>>

----------------------------------------------------------------------------
(* The site's routes under requests and stored rows.                       *)

SlugWholeMilk == <<"w", "h", "o", "l", "e", "-", "m", "i", "l", "k">>

\* <<name, slug>> of the products created.
RouteProductInputs ==
    {<<TxtWholeMilk, SlugWholeMilk>>, <<TxtBread, SlugBread>>,
     <<TxtWholeMilk, SlugMilk>>}

\* The URLs requested: the home path among others.
UrlInputs == {<<>>, <<TxtCatalog>>, <<TxtVacancies>>, <<TxtBogus>>}

NextRoutes ==
    \/ \E p \in RouteProductInputs, active \in BOOLEAN :
          AdminAddProduct(p[1], p[2], 1000, 0, 1, active)
    \/ \E active \in BOOLEAN :
          AdminAddVacancy(TxtCook, TxtBar, TxtGrill, None, None, active)
    \/ \E pk \in Pks(products) : CallGetAbsoluteUrl("Product", pk)
    \/ \E pk \in Pks(vacancies) : CallGetAbsoluteUrl("Vacancy", pk)
    \/ \E url \in UrlInputs : HomeGet(url)

SpecRoutes == InitCatalog /\ [][NextRoutes]_vars

\* C21: a GET request to the site's home path is always answered with a
\* permanent redirect, status 301, to the page the route named
\* catalog:category_list serves.
C21_HomeRedirectsToCategoryList ==
    response.op = "home_get" =>
        /\ response.answer.status = 301
        /\ response.answer.error = ""
        /\ ~IsNone(response.answer.url)
        /\ ~IsNone(resolve(Val(response.answer.url)))
        /\ Val(resolve(Val(response.answer.url))).name = "catalog:category_list"

\* The URL of the row resolves to the detail route of its aggregate, with
\* the row's key as the captured argument.
ResolvesToDetail(url, name, kwargs) ==
    /\ ~IsNone(url)
    /\ ~IsNone(resolve(Val(url)))
    /\ Val(resolve(Val(url))).name = name
    /\ Val(resolve(Val(url))).kwargs = kwargs

\* C22: for every stored vacancy the URL of get_absolute_url() resolves to
\* a registered vacancy detail route looked up by pk, and for every stored
\* product the URL of get_absolute_url() resolves to the product detail
\* route looked up by slug.
C22_AbsoluteUrlsResolveToDetail ==
    response.op = "get_absolute_url" =>
        /\ response.error = ""
        /\ IF response.model = "Product"
           THEN ResolvesToDetail(response.url, "catalog:product_detail",
                                 [slug |-> products[response.pk].slug])
           ELSE ResolvesToDetail(response.url, "vacancies:vacancy_detail",
                                 [pk |-> Numeral(response.pk)])

\* The URL of a stored product with a hyphen in its slug leads back to the
\* product detail route with that slug.
C22_ProductUrlReached ==
    /\ response.op = "get_absolute_url"
    /\ response.model = "Product"
    /\ products[response.pk].slug = SlugWholeMilk
    /\ ResolvesToDetail(response.url, "catalog:product_detail",
                        [slug |-> SlugWholeMilk])

----------------------------------------------------------------------------
(* apps.vacancies.views.VacancyListView                                    *)

\* The operations the class VacancyRepository defines.
VacancyRepositoryOperations == {"all", "filter"}

\* VacancyRepository.<operation>(**kwargs): AttributeError for a name the
\* class does not define, and otherwise the rows of the operation in an
\* order Meta.ordering allows.
VacancyRepositoryCall(operation, kwargs) ==
    IF operation \notin VacancyRepositoryOperations
    THEN {[error |-> "AttributeError", items |-> <<>>]}
    ELSE IF operation = "all"
    THEN {[error |-> "", items |-> s] :
             s \in OrderedBy(Pks(vacancies), VacancyDefaultBefore)}
    ELSE {[error |-> "", items |-> s] :
             s \in OrderedBy(
                      VacancyFilterRows(DictGet(kwargs, "search_query", None),
                                        DictGet(kwargs, "only_active", TRUE)),
                      VacancyDefaultBefore)}

\* VacancyListView.get_queryset: the repository operation it invokes for
\* the q of the request, with its arguments.
VacancyListQuery(q) ==
    IF GetParam(q) # <<>>
    THEN [operation |-> "find_by_search_query",
          kwargs |-> [search_query |-> Some(GetParam(q))]]
    ELSE [operation |-> "find_active", kwargs |-> <<>>]

\* GET of the vacancy list.  An exception that is not Http404 is answered
\* with status 500.
VacancyListGet(q) ==
    LET call == VacancyListQuery(q)
    IN  /\ \E out \in VacancyRepositoryCall(call.operation, call.kwargs) :
              response' =
                  [op |-> "vacancy_list", q |-> q,
                   operation |-> call.operation, error |-> out.error,
                   status |-> IF out.error # "" THEN 500 ELSE 200,
                   items |-> FirstPage(out.items)]
        /\ UNCHANGED <<products, categories, vacancies, clock,
                       users, outbox, requests>>

----------------------------------------------------------------------------
(* The vacancy list page under admin edits.                                *)

TxtCookPadded == <<" ", "C", "O", "O", "K", " ">>

VacancyListQueries == {None, Some(<<>>), Some(TxtBlank), Some(TxtCookPadded)}

NextVacancyList ==
    \/ \E t \in VacancyTextInputs, active \in BOOLEAN :
          AdminAddVacancy(t[1], t[2], t[3], None, None, active)
    \/ \E pk \in Pks(vacancies), active \in BOOLEAN :
          AdminListEditVacancy(pk, active)
    \/ \E q \in VacancyListQueries : VacancyListGet(q)

SpecVacancyList == Init /\ [][NextVacancyList]_vars

\* C26: for every GET of the vacancy list the view returns the active
\* vacancies matching the stripped q when it is non-empty and all active
\* vacancies when q is empty or blank, and every repository operation it
\* invokes is one VacancyRepository defines.
C26_VacancyListReturnsActiveMatches ==
    response.op = "vacancy_list" =>
        /\ response.operation \in VacancyRepositoryOperations
        /\ response.error = ""
        /\ NoRepeats(response.items)
        /\ SeqRange(response.items) =
              {pk \in Pks(vacancies) :
                  /\ vacancies[pk].is_active
                  /\ GetParam(response.q) # <<>> =>
                        \E f \in {vacancies[pk].title,
                                  vacancies[pk].description,
                                  vacancies[pk].short_description} :
                            OccursIgnoringCase(f, GetParam(response.q))}

----------------------------------------------------------------------------
(* The final_price annotation beside Product.get_final_price.              *)

\* <<name, price, discount>> of the products created, in hundredths: two
\* at one cent whose final prices differ by less than a cent among them.
AnnotationInputs ==
    {<<TxtBread, 1, 100>>, <<TxtBread, 1, 200>>, <<TxtWholeMilk, 1000, 3000>>,
     <<TxtMilkChocolate, 700, 0>>, <<TxtMilkChocolate, 2000, 5000>>}

AnnotationCalls ==
    {[order_field |-> f, only_active |-> a] :
        f \in {Some(TxtFinalPrice), Some(Desc(TxtFinalPrice))},
        a \in BOOLEAN}

NextAnnotation ==
    \/ \E p \in AnnotationInputs, active \in BOOLEAN :
          AdminAddProduct(p[1], FreshSlug, p[2], p[3], 1, active)
    \/ \E pk \in Pks(products), discount \in {0, 100, 200, 3000} :
          AdminListEditProduct(pk, products[pk].is_active, discount)
    \/ \E kwargs \in AnnotationCalls : ProductFilter(kwargs)

SpecAnnotation == InitCatalog /\ [][NextAnnotation]_vars

\* C30: the final price of the query annotation agrees with
\* get_final_price(): of every two products of a result ordered by
\* "final_price", the one that comes first has a get_final_price() less
\* than or equal to the other's.
C30_AnnotationAgreesWithGetFinalPrice ==
    (IsProductFilter /\ response.error = ""
        /\ KwOrder = Some(TxtFinalPrice)) =>
        \A i, j \in DOMAIN response.items :
            i < j =>
                DecLeq(get_final_price(products[response.items[i]]),
                       get_final_price(products[response.items[j]]))

\* The value in whole cents, rounded half up, of a decimal that is not
\* negative.
RoundedCents(d) ==
    IF d.e <= DecimalPlaces THEN d.c * Pow10(DecimalPlaces - d.e)
    ELSE (d.c + 5 * Pow10(d.e - DecimalPlaces - 1))
             \div Pow10(d.e - DecimalPlaces)

\* A result ordered by "final_price" whose first two products have final
\* prices that are the same amount in whole cents and differ below the
\* cent: the lower one comes first.
C30_Witness ==
    /\ IsProductFilter /\ response.error = ""
    /\ KwOrder = Some(TxtFinalPrice)
    /\ Len(response.items) >= 2
    /\ LET a == get_final_price(products[response.items[1]])
           b == get_final_price(products[response.items[2]])
       IN  /\ ~DecLeq(b, a)
           /\ RoundedCents(a) = RoundedCents(b)

====
